---- MODULE Spec2Model ----
(***************************************************************************)
(* A model of the JTC Building Explorer backend (src/app.py).              *)
(*                                                                         *)
(* Part 1: the remote-dataset cache, get_jtc_buildings and its route,      *)
(*         run by the request threads of the threaded Flask server.        *)
(* Part 2: the chat turn (chat, chat_with_tools, chat_rag) with the        *)
(*         ACTION-line parser and the override precedence.                 *)
(*                                                                         *)
(* Texts are sequences of tokens.  A token is a TLA+ string standing for   *)
(* the literal characters it spells; a one-character token is that         *)
(* character.                                                               *)
(***************************************************************************)
EXTENDS Integers, Sequences, FiniteSets, TLC

(***************************************************************************)
(* Bounds of the model.                                                    *)
(***************************************************************************)
\* the wall clock runs from 0 to MaxTime ticks
MaxTime == 3

\* one hour (timedelta(hours=1)) measured in clock ticks
TTL == 2

\* the request threads of app.run(threaded=True)
Threads == {"t1", "t2"}

\* Python's None, for a dataset value
None == "None"

\* an optional datetime: <<>> is None, <<e>> is the instant e
NoTime == <<>>
At(e) == <<e>>

\* payloads the download URL can decode to: two non-empty feature
\* collections and an empty JSON document (falsy in Python)
EmptyDoc == "{}"
Payloads == {"snapA", "snapB", EmptyDoc}

\* Python truthiness of a cached/returned dataset value
Truthy(v) == v # None /\ v # EmptyDoc

VARIABLES
    jtc_cache,   \* the global _jtc_cache: [data, expires]
    clock,       \* datetime.now(timezone.utc), in ticks
    pc,          \* per thread: the line of get_jtc_buildings it is at
    now,         \* per thread: the local `now`
    geojson,     \* per thread: the local `geojson` (downloaded payload)
    ret,         \* per thread: the value get_jtc_buildings returned
    outcome,     \* per thread: "none" | "hit" | "fetched" | "failed"
    nInit,       \* per thread: initiate-download requests issued by this call
    nDl,         \* per thread: payload downloads issued by this call
    touched,     \* per thread: this call changed jtc_cache
    usedExp,     \* per thread: the expiry the freshness comparison read
    retExp,      \* per thread: the expiry stored with the data the hit returned
    mustHit,     \* per thread: the call began inside a completed fetch's hour
    freshUntil,  \* latest t0 + 1h over the calls that fetched a snapshot
    stage,       \* the chat turn: "idle" | "context" | "parse" | "done"
    message,     \* the chat turn: the stripped user message
    is_trigger,  \* the chat turn: the message holds a trigger keyword
    mentioned_districts, \* the chat turn: region codes found in the message
    reply,       \* the chat turn: response.choices[0].message.content
    text,        \* the chat turn: the cleaned text the parser produced
    parsed,      \* the chat turn: `action` as the parser left it
    result,      \* the chat turn: the payload and status returned
    openai_client, \* the deployment: the Azure OpenAI client was configured
    route,       \* the request being served: the path of its route
    called,      \* the chat turn: the external calls it made
    failures,    \* the chat turn: the external calls of it that failed
    parcel,      \* what find_parcel_from_message returned
    districts,   \* what find_districts_in_message returned for the message
    point,       \* point_in_polygon: the point (lon, lat)
    polygon,     \* point_in_polygon: the ring, a list of vertices
    inside,      \* point_in_polygon: the value returned
    sla_districts_cache, \* the global _sla_districts_cache
    sla_file,    \* the features of SLALandSurveyDistrict.geojson
    sla_pc,      \* per thread: its position in load_sla_districts
    sla_ret,     \* per thread: what load_sla_districts returned to it
    nLoads,      \* how many times the file was read into the cache
    district_info, \* what find_district_for_point returned last
    lookup       \* the payload and status of the last lookup

cacheVars == <<jtc_cache, clock, pc, now, geojson, ret, outcome, nInit, nDl,
               touched, usedExp, retExp, mustHit, freshUntil>>

chatVars == <<stage, message, is_trigger, mentioned_districts, reply, text,
              parsed, result, openai_client, route, called, failures>>

pureVars == <<parcel, districts, point, polygon, inside>>

slaVars == <<sla_districts_cache, sla_file, sla_pc, sla_ret, nLoads, district_info,
             lookup>>

vars == <<cacheVars, chatVars, pureVars, slaVars>>

Max(a, b) == IF a >= b THEN a ELSE b

(***************************************************************************)
(* Part 1: get_jtc_buildings, one action per line that reads or writes     *)
(* shared state or talks to the upstream.                                  *)
(***************************************************************************)

CacheInit ==
    /\ jtc_cache = [data |-> None, expires |-> NoTime]
    /\ clock = 0
    /\ pc = [t \in Threads |-> "idle"]
    /\ now = [t \in Threads |-> 0]
    /\ geojson = [t \in Threads |-> None]
    /\ ret = [t \in Threads |-> None]
    /\ outcome = [t \in Threads |-> "none"]
    /\ nInit = [t \in Threads |-> 0]
    /\ nDl = [t \in Threads |-> 0]
    /\ touched = [t \in Threads |-> FALSE]
    /\ usedExp = [t \in Threads |-> NoTime]
    /\ retExp = [t \in Threads |-> NoTime]
    /\ mustHit = [t \in Threads |-> FALSE]
    /\ freshUntil = 0

\* time passes
Tick ==
    /\ clock < MaxTime
    /\ clock' = clock + 1
    /\ UNCHANGED <<jtc_cache, pc, now, geojson, ret, outcome, nInit, nDl,
                   touched, usedExp, retExp, mustHit, freshUntil>>
    /\ UNCHANGED <<chatVars, pureVars>>
    /\ UNCHANGED slaVars

\* a thread calls get_jtc_buildings: now = datetime.now(timezone.utc)
CallGetJtcBuildings(t) ==
    /\ pc[t] = "idle"
    /\ pc' = [pc EXCEPT ![t] = "chk_data"]
    /\ now' = [now EXCEPT ![t] = clock]
    /\ mustHit' = [mustHit EXCEPT ![t] = clock < freshUntil]
    /\ UNCHANGED <<jtc_cache, clock, geojson, ret, outcome, nInit, nDl,
                   touched, usedExp, retExp, freshUntil>>

\* a request for /api/jtc-buildings arrives and calls get_jtc_buildings
Enter(t) ==
    /\ CallGetJtcBuildings(t)
    /\ UNCHANGED <<chatVars, pureVars>>
    /\ UNCHANGED slaVars

\* `now < expires` for an instant and an optional datetime that is set
Before(n, e) == e # NoTime /\ n < e[1]

\* `_jtc_cache["data"] and ...`: the first read of the global
CheckData(t) ==
    /\ pc[t] = "chk_data"
    /\ pc' = [pc EXCEPT ![t] = IF Truthy(jtc_cache.data) THEN "chk_exp" ELSE "initiate"]
    /\ UNCHANGED <<jtc_cache, clock, now, geojson, ret, outcome, nInit, nDl,
                   usedExp, retExp, mustHit, freshUntil>>

\* `... and _jtc_cache["expires"] and ...`: the second read
CheckExpires(t) ==
    /\ pc[t] = "chk_exp"
    /\ pc' = [pc EXCEPT ![t] = IF jtc_cache.expires # NoTime THEN "chk_cmp" ELSE "initiate"]
    /\ UNCHANGED <<jtc_cache, clock, now, geojson, ret, outcome, nInit, nDl,
                   usedExp, retExp, mustHit, freshUntil>>

\* `... and now < _jtc_cache["expires"]`: the third read
CheckFresh(t) ==
    /\ pc[t] = "chk_cmp"
    /\ usedExp' = [usedExp EXCEPT ![t] = jtc_cache.expires]
    /\ pc' = [pc EXCEPT ![t] = IF Before(now[t], jtc_cache.expires)
                               THEN "ret_hit" ELSE "initiate"]
    /\ UNCHANGED <<jtc_cache, clock, now, geojson, ret, outcome, nInit, nDl,
                   retExp, mustHit, freshUntil>>

\* `return _jtc_cache["data"]`: the fourth read
ReturnCached(t) ==
    /\ pc[t] = "ret_hit"
    /\ ret' = [ret EXCEPT ![t] = jtc_cache.data]
    /\ retExp' = [retExp EXCEPT ![t] = jtc_cache.expires]
    /\ outcome' = [outcome EXCEPT ![t] = "hit"]
    /\ pc' = [pc EXCEPT ![t] = "done"]
    /\ UNCHANGED <<jtc_cache, clock, now, geojson, nInit, nDl,
                   usedExp, mustHit, freshUntil>>

\* how a refetch fails: requests.get or resp.json() raises, the result
\* code is not 0, the download url is missing, the payload download or
\* its decoding raises
InitiateFailures == {"raise", "badcode", "nourl"}
FailKinds == InitiateFailures \cup {"dlraise"}
Failed(t) == outcome[t] \in FailKinds

\* a refetch that drops the stored snapshot when it fails
ClearCacheOnFailure(c) == [data |-> None, expires |-> NoTime]

\* what the cache holds after a refetch failed: nothing assigns it
CacheAfterFailure(c) == c

\* the return value of a failed refetch: `return None`
FailureResult(c) == None

\* the except branch and the two early `return None`
Fail(t, kind) ==
    /\ jtc_cache' = CacheAfterFailure(jtc_cache)
    /\ ret' = [ret EXCEPT ![t] = FailureResult(jtc_cache)]
    /\ outcome' = [outcome EXCEPT ![t] = kind]
    /\ pc' = [pc EXCEPT ![t] = "done"]

\* a refetch that tries the initiate-download request a second time
RetryInitiateOnce(n) == IF n < 1 THEN "initiate" ELSE "done"

\* where a call goes after an initiate-download failed, n requests
\* having been issued before it: to the return, there is no retry
AfterInitiateFailure(n) == "done"

\* requests.get(.../initiate-download, timeout=15), resp.json(), the code
\* and url checks: it raises, answers code # 0, answers without a url, or
\* answers with a download url
Initiate(t) ==
    /\ pc[t] = "initiate"
    /\ nInit' = [nInit EXCEPT ![t] = @ + 1]
    /\ \E r \in InitiateFailures \cup {"ok"} :
          IF r = "ok"
          THEN /\ pc' = [pc EXCEPT ![t] = "download"]
               /\ UNCHANGED <<jtc_cache, ret, outcome>>
          ELSE IF AfterInitiateFailure(nInit[t]) = "done"
               THEN Fail(t, r)
               ELSE /\ pc' = [pc EXCEPT ![t] = AfterInitiateFailure(nInit[t])]
                    /\ UNCHANGED <<jtc_cache, ret, outcome>>
    /\ UNCHANGED <<clock, now, geojson, nDl, usedExp, retExp, mustHit,
                   freshUntil>>

\* geojson = requests.get(download_url, timeout=60).json(): it raises or
\* decodes to a payload
Download(t) ==
    /\ pc[t] = "download"
    /\ nDl' = [nDl EXCEPT ![t] = @ + 1]
    /\ \/ /\ Fail(t, "dlraise")
          /\ UNCHANGED geojson
       \/ \E d \in Payloads :
             /\ geojson' = [geojson EXCEPT ![t] = d]
             /\ pc' = [pc EXCEPT ![t] = "store"]
             /\ UNCHANGED <<jtc_cache, ret, outcome>>
    /\ UNCHANGED <<clock, now, nInit, usedExp, retExp, mustHit, freshUntil>>

\* the expiry a refresh stores
NewExpiry(t) == At(now[t] + TTL)

\* `_jtc_cache = {"data": geojson, "expires": now + timedelta(hours=1)}`
\* followed by `return geojson`
Store(t) ==
    /\ pc[t] = "store"
    /\ jtc_cache' = [data |-> geojson[t], expires |-> NewExpiry(t)]
    /\ ret' = [ret EXCEPT ![t] = geojson[t]]
    /\ outcome' = [outcome EXCEPT ![t] = "fetched"]
    /\ pc' = [pc EXCEPT ![t] = "done"]
    /\ freshUntil' = IF Truthy(geojson[t])
                     THEN Max(freshUntil, now[t] + TTL) ELSE freshUntil
    /\ UNCHANGED <<clock, now, geojson, nInit, nDl, usedExp, retExp, mustHit>>

\* one line of get_jtc_buildings by thread t; `touched` records whether the
\* call has changed the cache
Step(t) ==
    /\ \/ CheckData(t)
       \/ CheckExpires(t)
       \/ CheckFresh(t)
       \/ ReturnCached(t)
       \/ Initiate(t)
       \/ Download(t)
       \/ Store(t)
    /\ touched' = [touched EXCEPT ![t] = @ \/ jtc_cache' # jtc_cache]
    /\ UNCHANGED <<chatVars, pureVars>>
    /\ UNCHANGED slaVars

\* the status the route /api/jtc-buildings answers with:
\* `if not geojson: return jsonify({"error": ...}), 502`
RouteStatus(v) == IF Truthy(v) THEN 200 ELSE 502

\* get_jtc_buildings has returned to its caller: its locals are gone
ReturnFromCall(t) ==
    /\ pc[t] = "done"
    /\ pc' = [pc EXCEPT ![t] = "idle"]
    /\ now' = [now EXCEPT ![t] = 0]
    /\ geojson' = [geojson EXCEPT ![t] = None]
    /\ ret' = [ret EXCEPT ![t] = None]
    /\ outcome' = [outcome EXCEPT ![t] = "none"]
    /\ nInit' = [nInit EXCEPT ![t] = 0]
    /\ nDl' = [nDl EXCEPT ![t] = 0]
    /\ touched' = [touched EXCEPT ![t] = FALSE]
    /\ usedExp' = [usedExp EXCEPT ![t] = NoTime]
    /\ retExp' = [retExp EXCEPT ![t] = NoTime]
    /\ mustHit' = [mustHit EXCEPT ![t] = FALSE]
    /\ UNCHANGED <<jtc_cache, clock, freshUntil>>

\* the route /api/jtc-buildings answers the request
jtc_buildings(t) ==
    /\ ReturnFromCall(t)
    /\ UNCHANGED <<chatVars, pureVars>>
    /\ UNCHANGED slaVars

(***************************************************************************)
(* Part 2: texts.  A text is a TLA+ string; the operators below are the    *)
(* Python string methods the code calls, character by character.           *)
(***************************************************************************)

\* the i-th character of s
Char(s, i) == SubSeq(s, i, i)

\* s[i:] with i counted from 0
From(s, i) == SubSeq(s, i + 1, Len(s))

\* the whitespace str.strip() removes
Whitespace == {" ", "\t", "\n", "\r"}

UpperLetters == "ABCDEFGHIJKLMNOPQRSTUVWXYZ"
LowerLetters == "abcdefghijklmnopqrstuvwxyz"
LetterIndex(c, letters) ==
    IF \E i \in 1..Len(letters) : Char(letters, i) = c
    THEN CHOOSE i \in 1..Len(letters) : Char(letters, i) = c
    ELSE 0

\* the case mappings of the ASCII letters, as lookup tables
UpperSet == {Char(UpperLetters, i) : i \in 1..Len(UpperLetters)}
LowerSet == {Char(LowerLetters, i) : i \in 1..Len(LowerLetters)}
LowerOf == [c \in UpperSet |-> Char(LowerLetters, LetterIndex(c, UpperLetters))]
UpperOf == [c \in LowerSet |-> Char(UpperLetters, LetterIndex(c, LowerLetters))]

LowerChar(c) == IF c \in UpperSet THEN LowerOf[c] ELSE c
UpperChar(c) == IF c \in LowerSet THEN UpperOf[c] ELSE c

RECURSIVE Lower(_)
\* str.lower()
Lower(s) ==
    IF Len(s) = 0 THEN ""
    ELSE IF Len(s) = 1 THEN LowerChar(s)
    ELSE Lower(SubSeq(s, 1, Len(s) \div 2)) \o Lower(SubSeq(s, Len(s) \div 2 + 1, Len(s)))

RECURSIVE Upper(_)
\* str.upper()
Upper(s) ==
    IF Len(s) = 0 THEN ""
    ELSE IF Len(s) = 1 THEN UpperChar(s)
    ELSE Upper(SubSeq(s, 1, Len(s) \div 2)) \o Upper(SubSeq(s, Len(s) \div 2 + 1, Len(s)))

RECURSIVE LStrip(_)
LStrip(s) == IF s # "" /\ Head(s) \in Whitespace THEN LStrip(Tail(s)) ELSE s

RECURSIVE RStrip(_)
RStrip(s) ==
    IF s # "" /\ Char(s, Len(s)) \in Whitespace
    THEN RStrip(SubSeq(s, 1, Len(s) - 1)) ELSE s

\* str.strip()
Strip(s) == RStrip(LStrip(s))

\* s.startswith(p)
StartsWith(s, p) == Len(s) >= Len(p) /\ SubSeq(s, 1, Len(p)) = p

\* `sub in s`
Contains(s, sub) ==
    \E i \in 1..(Len(s) - Len(sub) + 1) : SubSeq(s, i, i + Len(sub) - 1) = sub

\* the position of the first occurrence of the one-character separator
\* sep in s, 0 when there is none
Find(s, sep) ==
    IF \E i \in 1..Len(s) : Char(s, i) = sep
    THEN CHOOSE i \in 1..Len(s) :
            Char(s, i) = sep /\ \A j \in 1..(i - 1) : Char(s, j) # sep
    ELSE 0

RECURSIVE Split(_, _)
\* s.split(sep) for a one-character separator: at least one piece
Split(s, sep) ==
    IF Find(s, sep) = 0 THEN <<s>>
    ELSE <<SubSeq(s, 1, Find(s, sep) - 1)>> \o Split(From(s, Find(s, sep)), sep)

RECURSIVE Join(_, _)
\* sep.join(pieces)
Join(pieces, sep) ==
    IF pieces = <<>> THEN ""
    ELSE IF Len(pieces) = 1 THEN pieces[1]
    ELSE pieces[1] \o sep \o Join(Tail(pieces), sep)

\* every concatenation of at most n of the given fragments
RECURSIVE Concats(_, _)
Concats(frags, n) ==
    IF n = 0 THEN {""}
    ELSE LET shorter == Concats(frags, n - 1)
         IN  shorter \cup {f \o s : f \in frags, s \in shorter}

(***************************************************************************)
(* Part 2: the static tables of the chat path.                             *)
(***************************************************************************)

\* LAND_PARCELS: postal code and name of the nine parcels, in list order
LAND_PARCELS == <<
    [postal_code |-> "528872", name |-> "Tampines North"],
    [postal_code |-> "738339", name |-> "Woodlands North"],
    [postal_code |-> "729755", name |-> "Sungei Kadut"],
    [postal_code |-> "637371", name |-> "Tuas South"],
    [postal_code |-> "508988", name |-> "Loyang"],
    [postal_code |-> "628502", name |-> "Pioneer"],
    [postal_code |-> "498793", name |-> "Changi North"],
    [postal_code |-> "758069", name |-> "Senoko"],
    [postal_code |-> "728710", name |-> "Kranji"] >>

\* HIGHLIGHT_POSTAL_CODES = [p["postal_code"] for p in LAND_PARCELS]
HIGHLIGHT_POSTAL_CODES == [i \in 1..Len(LAND_PARCELS) |-> LAND_PARCELS[i].postal_code]

TRIGGER_KEYWORDS == <<"sample clauses", "single use factory", "single-use factory",
                      "single used factory", "green technology", "data center",
                      "data centre">>

\* DISTRICT_ALIASES, in dictionary order
DISTRICT_ALIASES == <<
    <<"downtown", <<"TS01", "TS02", "TS03", "TS04", "TS05">> >>,
    <<"central", <<"TS01", "TS02", "TS03", "TS04", "TS05", "TS06">> >>,
    <<"orchard", <<"TS09", "TS10">> >>,
    <<"marina", <<"TS01", "TS02">> >>,
    <<"cbd", <<"TS01", "TS02", "TS03", "TS04">> >>,
    <<"raffles", <<"TS01">> >>,
    <<"tanjong pagar", <<"TS04", "TS05">> >>,
    <<"chinatown", <<"TS05", "TS06">> >>,
    <<"tampines", <<"MK31", "MK32">> >>,
    <<"bedok", <<"MK27", "MK28">> >>,
    <<"changi", <<"MK33", "MK34">> >>,
    <<"pasir ris", <<"MK30">> >>,
    <<"east coast", <<"MK26", "MK27">> >>,
    <<"geylang", <<"MK24", "MK25">> >>,
    <<"jurong", <<"MK04", "MK05", "MK06">> >>,
    <<"tuas", <<"MK01", "MK02">> >>,
    <<"pioneer", <<"MK03">> >>,
    <<"clementi", <<"MK08">> >>,
    <<"bukit batok", <<"MK09">> >>,
    <<"bukit timah", <<"MK10", "MK11">> >>,
    <<"woodlands", <<"MK17", "MK18">> >>,
    <<"sembawang", <<"MK19">> >>,
    <<"yishun", <<"MK16">> >>,
    <<"sungei kadut", <<"MK17">> >>,
    <<"mandai", <<"MK15">> >>,
    <<"sengkang", <<"MK21", "MK22">> >>,
    <<"punggol", <<"MK23">> >>,
    <<"hougang", <<"MK20">> >>,
    <<"serangoon", <<"MK20", "MK21">> >>,
    <<"ang mo kio", <<"MK14">> >>,
    <<"industrial", <<"MK01", "MK02", "MK03", "MK04", "MK17">> >>,
    <<"loyang", <<"MK33">> >>,
    <<"senoko", <<"MK18">> >>,
    <<"kranji", <<"MK17">> >> >>

Range(f) == {f[i] : i \in DOMAIN f}

(***************************************************************************)
(* find_districts_in_message                                               *)
(***************************************************************************)

Digits == "0123456789"
DigitSet == {Char(Digits, i) : i \in 1..Len(Digits)}
IsDigit(c) == c \in DigitSet

\* a character the regex class \w matches
IsWordChar(c) == c \in UpperSet \/ c \in LowerSet \/ IsDigit(c) \/ c = "_"

\* the regex assertion \b between the characters i and i + 1 of s
WordBoundary(s, i) ==
    LET left  == i >= 1 /\ i <= Len(s) /\ IsWordChar(Char(s, i))
        right == i + 1 >= 1 /\ i + 1 <= Len(s) /\ IsWordChar(Char(s, i + 1))
    IN  left # right

RECURSIVE SkipSpace(_, _)
\* the first position at or after i of s that holds no whitespace (\s*)
SkipSpace(s, i) ==
    IF i <= Len(s) /\ Char(s, i) \in Whitespace THEN SkipSpace(s, i + 1) ELSE i

\* the prefixes DISTRICT_PATTERN accepts: (MK|TS|mk|ts)
DistrictPrefixes == {"MK", "TS", "mk", "ts"}

\* DISTRICT_PATTERN = \b(MK|TS|mk|ts)\s*(\d{1,2})\b matched at position i of
\* s: <<prefix, num>>, or <<>> when it does not match there
DistrictMatchAt(s, i) ==
    IF ~(WordBoundary(s, i - 1) /\ i + 1 <= Len(s)
           /\ SubSeq(s, i, i + 1) \in DistrictPrefixes)
    THEN <<>>
    ELSE LET p == SkipSpace(s, i + 2)
         IN  IF ~(p <= Len(s) /\ IsDigit(Char(s, p))) THEN <<>>
             ELSE IF p + 1 <= Len(s) /\ IsDigit(Char(s, p + 1)) /\ WordBoundary(s, p + 1)
                  THEN <<SubSeq(s, i, i + 1), SubSeq(s, p, p + 1)>>
             ELSE IF WordBoundary(s, p)
                  THEN <<SubSeq(s, i, i + 1), Char(s, p)>>
             ELSE <<>>

\* a code format padded to three digits
DistrictCodeThreeDigits(prefix, num) ==
    Upper(prefix) \o (IF Len(num) = 1 THEN "00" \o num ELSE "0" \o num)

\* f"{prefix.upper()}{int(num):02d}" for a num of one or two digits
DistrictCode(prefix, num) ==
    Upper(prefix) \o (IF Len(num) = 1 THEN "0" \o num ELSE num)

\* the codes of the aliases found in the lowercased message
AliasCodes(msg_lower) ==
    LET low == msg_lower
    IN  UNION {Range(DISTRICT_ALIASES[k][2]) :
                 k \in {j \in 1..Len(DISTRICT_ALIASES) :
                          Contains(low, DISTRICT_ALIASES[j][1])}}

\* the set `districts` find_districts_in_message builds
DistrictSet(msg) ==
    LET matches == {DistrictMatchAt(msg, i) : i \in 1..Len(msg)} \ {<<>>}
    IN  {DistrictCode(m[1], m[2]) : m \in matches} \cup AliasCodes(Lower(msg))

RECURSIVE ListOfSet(_)
\* list(a_set): the elements in an order the program does not choose
ListOfSet(S) ==
    IF S = {} THEN <<>>
    ELSE LET x == CHOOSE y \in S : TRUE IN <<x>> \o ListOfSet(S \ {x})

find_districts_in_message(msg) == ListOfSet(DistrictSet(msg))

\* any(kw in message.lower() for kw in TRIGGER_KEYWORDS)
IsTrigger(msg) ==
    LET msg_lower == Lower(msg)
    IN  \E k \in 1..Len(TRIGGER_KEYWORDS) : Contains(msg_lower, TRIGGER_KEYWORDS[k])

(***************************************************************************)
(* point_in_polygon, on integer coordinates; the float comparison          *)
(*   x < (xj - xi) * (y - yi) / (yj - yi) + xi                             *)
(* is evaluated exactly, by multiplying through with yj - yi.              *)
(***************************************************************************)

\* a loop that starts with j = 0 and so leaves out the closing edge
NoClosingEdge(i, n) == IF i = 1 THEN 1 ELSE i - 1

\* j when the loop body runs for i (1-based): n for the first vertex
\* (j = n - 1 in the source), else the vertex before
PrevIndex(i, n) == IF i = 1 THEN n ELSE i - 1

\* an `and` that evaluates its second operand whatever the first is
EvaluatesDivisionAlways(y, vi, vj) == TRUE

\* the second operand of the `and`, with its division by yj - yi, is
\* evaluated only when the first, ((yi > y) != (yj > y)), is true
EvaluatesDivision(y, vi, vj) == (vi[2] > y) # (vj[2] > y)

\* the condition of the if in the loop body, for the edge from vj to vi
EdgeFlips(x, y, vi, vj) ==
    LET xi == vi[1]
        yi == vi[2]
        xj == vj[1]
        yj == vj[2]
    IN  /\ EvaluatesDivision(y, vi, vj)
        /\ IF yj - yi > 0
           THEN (x - xi) * (yj - yi) < (xj - xi) * (y - yi)
           ELSE (x - xi) * (yj - yi) > (xj - xi) * (y - yi)

RECURSIVE RayLoop(_, _, _, _)
\* `for i in range(n):` from vertex i on, with the flag as it stands
RayLoop(pt, ring, i, flag) ==
    IF i > Len(ring) THEN flag
    ELSE RayLoop(pt, ring, i + 1,
                 IF EdgeFlips(pt[1], pt[2], ring[i], ring[PrevIndex(i, Len(ring))])
                 THEN ~flag ELSE flag)

\* point_in_polygon(point, polygon)
point_in_polygon(pt, ring) == RayLoop(pt, ring, 1, FALSE)

(***************************************************************************)
(* The region dataset: load_sla_districts, find_district_for_point and     *)
(* the lookup route.                                                       *)
(***************************************************************************)

\* Python's None, for the loaded dataset, and a loaded feature collection
NoDistricts == [loaded |-> FALSE, features |-> <<>>]
Loaded(features) == [loaded |-> TRUE, features |-> features]

\* an optional district info: <<>> is None, <<info>> is the dict
NoInfo == <<>>

\* the rings of the regions: two overlapping squares, a small square, and
\* a hole of the first square
OuterA == << <<0, 0>>, <<4, 0>>, <<4, 4>>, <<0, 4>> >>
HoleA == << <<1, 1>>, <<3, 1>>, <<3, 3>>, <<1, 3>> >>
OuterB == << <<2, 2>>, <<6, 2>>, <<6, 6>>, <<2, 6>> >>
OuterC == << <<5, 0>>, <<6, 0>>, <<6, 1>>, <<5, 1>> >>

\* the features a dataset is made of: a polygon with a hole, a polygon, a
\* multipolygon whose first polygon is empty, a point feature, and a
\* polygon whose description names no SURVEY_DISTRICT
RegionFeatures ==
    { [survey_district |-> "MK01", type |-> "Polygon",
       coordinates |-> <<OuterA, HoleA>>],
      [survey_district |-> "MK02", type |-> "Polygon",
       coordinates |-> <<OuterB>>],
      [survey_district |-> "TS01", type |-> "MultiPolygon",
       coordinates |-> << <<>>, <<OuterC>>, <<OuterB, HoleA>> >>],
      [survey_district |-> "TS02", type |-> "Point",
       coordinates |-> <<1, 1>>],
      [survey_district |-> None, type |-> "Polygon",
       coordinates |-> <<OuterA>>] }

\* the feature lists SLALandSurveyDistrict.geojson can hold: up to
\* MaxFeatures features
MaxFeatures == 2
RegionDatasets == UNION {[1..n -> RegionFeatures] : n \in 0..MaxFeatures}

\* the points looked up
RegionCoords == {0, 2, 3, 5}
RegionPoints == RegionCoords \X RegionCoords

\* no request is inside load_sla_districts and nothing is loaded
SlaIdle ==
    /\ sla_districts_cache = NoDistricts
    /\ sla_pc = [t \in Threads |-> "idle"]
    /\ sla_ret = [t \in Threads |-> NoDistricts]
    /\ nLoads = 0
    /\ district_info = NoInfo
    /\ lookup = [status |-> 0, found |-> FALSE, district |-> NoInfo]

\* the same, with a file of no features
SlaUnused == SlaIdle /\ sla_file = <<>>

\* `if _sla_districts_cache is not None:`
IsCached(cache) == cache # NoDistricts

\* load_sla_districts is called by thread t: the cached value is returned,
\* else the thread goes on to open the file
CallLoadSlaDistricts(t) ==
    /\ sla_pc[t] = "idle"
    /\ IF IsCached(sla_districts_cache)
       THEN /\ sla_pc' = [sla_pc EXCEPT ![t] = "returned"]
            /\ sla_ret' = [sla_ret EXCEPT ![t] = sla_districts_cache]
       ELSE /\ sla_pc' = [sla_pc EXCEPT ![t] = "open"]
            /\ UNCHANGED sla_ret
    /\ UNCHANGED <<sla_districts_cache, sla_file, nLoads>>

\* _sla_districts_cache = json.load(f); return _sla_districts_cache
ReadFile(t) ==
    /\ sla_pc[t] = "open"
    /\ sla_districts_cache' = Loaded(sla_file)
    /\ nLoads' = nLoads + 1
    /\ sla_ret' = [sla_ret EXCEPT ![t] = Loaded(sla_file)]
    /\ sla_pc' = [sla_pc EXCEPT ![t] = "returned"]
    /\ UNCHANGED <<sla_file, district_info, lookup>>
    /\ UNCHANGED <<cacheVars, chatVars, pureVars>>

\* open or json.load raises: `except Exception` returns None
ReadFails(t) ==
    /\ sla_pc[t] = "open"
    /\ sla_ret' = [sla_ret EXCEPT ![t] = NoDistricts]
    /\ sla_pc' = [sla_pc EXCEPT ![t] = "returned"]
    /\ UNCHANGED <<sla_districts_cache, sla_file, nLoads, district_info, lookup>>
    /\ UNCHANGED <<cacheVars, chatVars, pureVars>>

\* parse_district_info(desc), for a description that names the district
\* feature.survey_district (None when the tag is missing)
parse_district_info(feature) == <<[survey_district |-> feature.survey_district]>>

\* a scan that tests every ring of a polygon, holes included, and takes
\* a point in a hole as outside
OuterMinusHoles(pt, rings) ==
    /\ point_in_polygon(pt, rings[1])
    /\ \A k \in 2..Len(rings) : ~point_in_polygon(pt, rings[k])

\* point_in_polygon(point, coords) for coords = the outer ring rings[1]
InOuterRing(pt, rings) == point_in_polygon(pt, rings[1])

\* the two geometry branches of the loop body of find_district_for_point
FeatureContains(feature, pt) ==
    IF feature.type = "Polygon"
    THEN InOuterRing(pt, feature.coordinates)
    ELSE IF feature.type = "MultiPolygon"
    THEN \E k \in 1..Len(feature.coordinates) :
             /\ feature.coordinates[k] # <<>>
             /\ InOuterRing(pt, feature.coordinates[k])
    ELSE FALSE

RECURSIVE ScanFeatures(_, _, _)
\* `for feature in districts.get("features", []):` from feature i on
ScanFeatures(features, pt, i) ==
    IF i > Len(features) THEN NoInfo
    ELSE IF FeatureContains(features[i], pt) THEN parse_district_info(features[i])
    ELSE ScanFeatures(features, pt, i + 1)

\* find_district_for_point(lon, lat), given what load_sla_districts returned
find_district_for_point(districts_loaded, pt) ==
    IF ~districts_loaded.loaded THEN NoInfo
    ELSE ScanFeatures(districts_loaded.features, pt, 1)

\* the payload of the lookup route for a district_info
LookupPayload(info) ==
    IF info # NoInfo
    THEN [status |-> 200, found |-> TRUE, district |-> info]
    ELSE [status |-> 200, found |-> FALSE, district |-> NoInfo]

\* GET /api/sla-districts/lookup with lon or lat missing or not a number
sla_district_lookup_invalid(t) ==
    /\ sla_pc[t] = "idle"
    /\ lookup' = [status |-> 400, found |-> FALSE, district |-> NoInfo]
    /\ district_info' = NoInfo
    /\ UNCHANGED <<sla_districts_cache, sla_file, sla_pc, sla_ret, nLoads>>
    /\ UNCHANGED <<cacheVars, chatVars, pureVars>>

\* GET /api/sla-districts/lookup (or another reader of the regions) up to
\* the call of load_sla_districts
sla_district_lookup(t) ==
    /\ CallLoadSlaDistricts(t)
    /\ UNCHANGED <<district_info, lookup>>
    /\ UNCHANGED <<cacheVars, chatVars, pureVars>>

\* load_sla_districts returned to find_district_for_point(lon, lat)
\* with (lon, lat) = pt: scan the features and answer
lookup_returns(t, pt) ==
    /\ sla_pc[t] = "returned"
    /\ sla_pc' = [sla_pc EXCEPT ![t] = "idle"]
    /\ point' = pt
    /\ district_info' = find_district_for_point(sla_ret[t], pt)
    /\ lookup' = LookupPayload(find_district_for_point(sla_ret[t], pt))
    /\ UNCHANGED <<sla_districts_cache, sla_file, sla_ret, nLoads>>
    /\ UNCHANGED <<parcel, districts, polygon, inside>>
    /\ UNCHANGED <<cacheVars, chatVars>>

(***************************************************************************)
(* is_document_request and find_parcel_from_message                        *)
(***************************************************************************)

\* DOC_PATTERNS: each pattern is a list of alternative sets joined by `.*`;
\* the two patterns with a nested or top-level `|` are written as one list
\* per branch
DocWords == {"tender", "agreement", "document", "contract", "docs", "doc"}
DOC_PATTERNS ==
    << <<{"draft"}, DocWords>>,
       <<{"generate"}, DocWords>>,
       <<{"create"}, DocWords>>,
       <<{"prepare"}, DocWords>>,
       <<{"make"}, DocWords>>,
       <<{"write"}, DocWords>>,
       <<{"produce"}, DocWords>>,
       <<{"land"}, {"sales"}, DocWords \cup {"in", "at", "for"}>>,
       <<{"sales"}, {"tender"}>>,
       <<{"tender"}, {"document"}>>,
       <<{"tender", "agreement", "document", "contract"}, {"for"},
         {"parcel", "property", "land", "postal"}>>,
       <<{"i need", "i want", "can you", "please"},
         {"tender", "agreement", "document", "contract"}>>,
       <<{"i plan", "planning"}, {"land"}, {"sales"}>>,
       <<{"i plan", "planning"}, {"tender", "development"}>>,
       <<{"draft"}, {"for"}, {"factory", "manufacturing", "industrial", "semiconductor"}>>,
       <<{"docx"}>>,
       <<{"word"}, {"file", "document"}>> >>

\* the literal w stands at position i of s
OccursAt(s, w, i) == i >= 1 /\ i + Len(w) - 1 <= Len(s) /\ SubSeq(s, i, i + Len(w) - 1) = w

\* `.*` can span the characters from..(to - 1) of s: none is a newline
DotStar(s, from, to) == \A k \in from..(to - 1) : Char(s, k) # "\n"

RECURSIVE MatchesFrom(_, _, _)
\* the parts, joined by `.*`, match in s with the first part starting at
\* or after position from and `.*` spanning the gap before it
MatchesFrom(s, parts, from) ==
    IF parts = <<>> THEN TRUE
    ELSE \E i \in from..Len(s) : \E w \in Head(parts) :
            /\ OccursAt(s, w, i)
            /\ DotStar(s, from, i)
            /\ MatchesFrom(s, Tail(parts), i + Len(w))

\* re.search(pattern, s)
Search(parts, s) ==
    \E i \in 1..Len(s) : \E w \in Head(parts) :
        OccursAt(s, w, i) /\ MatchesFrom(s, Tail(parts), i + Len(w))

\* is_document_request(message)
is_document_request(msg) ==
    LET msg_lower == Lower(msg)
    IN  \E k \in 1..Len(DOC_PATTERNS) : Search(DOC_PATTERNS[k], msg_lower)

\* LOCATION_ALIASES, in the order of the dict
LOCATION_ALIASES ==
    << <<"528872", <<"tampines", "tampines north">> >>,
       <<"738339", <<"woodlands", "woodlands north">> >>,
       <<"729755", <<"sungei kadut", "kadut">> >>,
       <<"637371", <<"tuas", "tuas south">> >>,
       <<"508988", <<"loyang">> >>,
       <<"628502", <<"pioneer">> >>,
       <<"498793", <<"changi", "changi north">> >>,
       <<"758069", <<"senoko">> >>,
       <<"728710", <<"kranji">> >> >>

\* Python's None, for a parcel
NoParcel == [postal_code |-> "None", name |-> "None"]

\* next((p for p in LAND_PARCELS if p["postal_code"] == postal_code), None)
ParcelByCode(postal_code) ==
    IF \E i \in 1..Len(LAND_PARCELS) : LAND_PARCELS[i].postal_code = postal_code
    THEN LAND_PARCELS[CHOOSE i \in 1..Len(LAND_PARCELS) :
                          /\ LAND_PARCELS[i].postal_code = postal_code
                          /\ \A j \in 1..(i - 1) : LAND_PARCELS[j].postal_code # postal_code]
    ELSE NoParcel

\* \b(\d{6})\b matches at position i of s
SixDigitsAt(s, i) ==
    /\ i + 5 <= Len(s)
    /\ \A k \in i..(i + 5) : IsDigit(Char(s, k))
    /\ WordBoundary(s, i - 1)
    /\ WordBoundary(s, i + 5)

\* re.search(r'\b(\d{6})\b', message).group(1), "" when there is no match
PostalMatch(msg) ==
    IF \E i \in 1..Len(msg) : SixDigitsAt(msg, i)
    THEN LET i == CHOOSE i \in 1..Len(msg) :
                      SixDigitsAt(msg, i) /\ \A j \in 1..(i - 1) : ~SixDigitsAt(msg, j)
         IN  SubSeq(msg, i, i + 5)
    ELSE ""

\* the first strategy: the postal code found, looked up
ByPostalCode(msg) ==
    IF PostalMatch(msg) = "" THEN NoParcel ELSE ParcelByCode(PostalMatch(msg))

\* the entries of LOCATION_ALIASES one of whose aliases is in msg_lower and
\* whose code is a parcel's
AliasHits(msg_lower) ==
    {k \in 1..Len(LOCATION_ALIASES) :
        /\ \E a \in Range(LOCATION_ALIASES[k][2]) : Contains(msg_lower, a)
        /\ ParcelByCode(LOCATION_ALIASES[k][1]) # NoParcel}

\* the second strategy: the first such entry in dict order
ByAlias(msg_lower) ==
    IF AliasHits(msg_lower) = {} THEN NoParcel
    ELSE ParcelByCode(LOCATION_ALIASES[
             CHOOSE k \in AliasHits(msg_lower) : \A j \in AliasHits(msg_lower) : k <= j][1])

\* the parcels with a name word longer than 3 characters in msg_lower
NameHits(msg_lower) ==
    {i \in 1..Len(LAND_PARCELS) :
        \E part \in Range(Split(Lower(LAND_PARCELS[i].name), " ")) :
            Len(part) > 3 /\ Contains(msg_lower, part)}

\* the third strategy: the first such parcel in list order
ByName(msg_lower) ==
    IF NameHits(msg_lower) = {} THEN NoParcel
    ELSE LAND_PARCELS[CHOOSE i \in NameHits(msg_lower) : \A j \in NameHits(msg_lower) : i <= j]

\* a resolver that looks for aliases and name words in the message as typed
find_parcel_as_typed(msg) ==
    IF ByPostalCode(msg) # NoParcel THEN ByPostalCode(msg)
    ELSE IF ByAlias(msg) # NoParcel THEN ByAlias(msg)
    ELSE ByName(msg)

\* find_parcel_from_message(message)
find_parcel_from_message(msg) ==
    LET msg_lower == Lower(msg)
    IN  IF ByPostalCode(msg) # NoParcel THEN ByPostalCode(msg)
        ELSE IF ByAlias(msg_lower) # NoParcel THEN ByAlias(msg_lower)
        ELSE ByName(msg_lower)

(***************************************************************************)
(* chat_rag: the ACTION-line parser                                        *)
(***************************************************************************)

\* Python's `action = None`
NoAction == [type |-> "None"]

\* `line.strip().startswith('ACTION:')`
IsActionLine(line) == StartsWith(Strip(line), "ACTION:")

\* `cmd = line.strip()[7:]`
DirectiveBody(line) == From(Strip(line), 7)

RECURSIVE StrippedNonEmpty(_)
\* [c.strip() for c in pieces if c.strip()]
StrippedNonEmpty(pieces) ==
    IF pieces = <<>> THEN <<>>
    ELSE IF Strip(Head(pieces)) = "" THEN StrippedNonEmpty(Tail(pieces))
    ELSE <<Strip(Head(pieces))>> \o StrippedNonEmpty(Tail(pieces))

\* a directive mapping that keeps the case of the filter text
ParseCommandKeepCase(cmd) ==
    IF cmd = "SHOW_ALL" THEN [type |-> "show_buildings"]
    ELSE IF cmd = "CLEAR" THEN [type |-> "clear_map"]
    ELSE IF StartsWith(cmd, "FILTER:")
         THEN [type |-> "show_buildings", filter |-> From(cmd, 7)]
    ELSE [type |-> "None"]

\* the if/elif chain over cmd: the command a directive body encodes,
\* NoAction when no branch matches
ParseCommand(cmd) ==
    IF cmd = "SHOW_ALL" THEN [type |-> "show_buildings"]
    ELSE IF cmd = "CLEAR" THEN [type |-> "clear_map"]
    ELSE IF StartsWith(cmd, "FILTER:")
         THEN [type |-> "show_buildings", filter |-> Lower(From(cmd, 7))]
    ELSE IF StartsWith(cmd, "POSTAL:")
         THEN [type |-> "highlight_postal_codes",
               postal_codes |-> StrippedNonEmpty(Split(From(cmd, 7), ","))]
    ELSE IF StartsWith(cmd, "DISTRICT:")
         THEN [type |-> "highlight_districts",
               district_codes |->
                   LET codes == StrippedNonEmpty(Split(From(cmd, 9), ","))
                   IN  [i \in 1..Len(codes) |-> Upper(codes[i])]]
    ELSE NoAction

\* `action` after the loop body ran on an ACTION line: a branch that
\* matches assigns it, otherwise it keeps its value
ActionAfter(line, action) ==
    IF ParseCommand(DirectiveBody(line)) # NoAction
    THEN ParseCommand(DirectiveBody(line)) ELSE action

\* a parser that leaves an ACTION line it does not recognise in the text
KeepUnrecognisedLine(line, clean_lines) ==
    IF IsActionLine(line) /\ ParseCommand(DirectiveBody(line)) # NoAction
    THEN clean_lines ELSE Append(clean_lines, line)

\* `clean_lines` after the loop body ran on a line: only the else branch
\* appends
CleanLinesAfter(line, clean_lines) ==
    IF IsActionLine(line) THEN clean_lines ELSE Append(clean_lines, line)

RECURSIVE ParseLines(_, _, _)
\* `for line in lines:` from the state (clean_lines, action)
ParseLines(lines, clean_lines, action) ==
    IF lines = <<>> THEN [clean_lines |-> clean_lines, action |-> action]
    ELSE ParseLines(Tail(lines),
                    CleanLinesAfter(Head(lines), clean_lines),
                    IF IsActionLine(Head(lines))
                    THEN ActionAfter(Head(lines), action) ELSE action)

\* a parser that joins the kept lines with a blank
CleanTextJoinedByBlank(clean_lines) == Strip(Join(clean_lines, " "))

\* `text = '\n'.join(clean_lines).strip()`
CleanText(clean_lines) == Strip(Join(clean_lines, "\n"))

\* the parser: model text in, cleaned text and `action` out
ParseActions(content) ==
    LET r == ParseLines(Split(Strip(content), "\n"), <<>>, NoAction)
    IN  [text |-> CleanText(r.clean_lines), action |-> r.action]

(***************************************************************************)
(* chat_rag: the overrides                                                 *)
(***************************************************************************)

\* region-mention synthesis that ignores what the parser produced
SynthesiseAlways(mentioned, action) ==
    IF mentioned # <<>>
    THEN [type |-> "highlight_districts", district_codes |-> mentioned]
    ELSE action

\* a synthesis that also replaces a command without codes
SynthesiseOverEmptyList(mentioned, action) ==
    IF mentioned # <<>>
       /\ (action = NoAction
             \/ action = [type |-> "highlight_districts", district_codes |-> <<>>]
             \/ action = [type |-> "highlight_postal_codes", postal_codes |-> <<>>])
    THEN [type |-> "highlight_districts", district_codes |-> mentioned]
    ELSE action

\* `if mentioned_districts and not action: action = {...}`
SynthesiseDistricts(mentioned, action) ==
    IF mentioned # <<>> /\ action = NoAction
    THEN [type |-> "highlight_districts", district_codes |-> mentioned]
    ELSE action

\* the confirmation line appended with a synthesised command; the pin
\* emoji of the source is written <pin>
DistrictNote(mentioned, action, txt) ==
    IF mentioned # <<>> /\ action = NoAction
       /\ ~Contains(Lower(txt), "highlighted") /\ ~Contains(Lower(txt), "map")
    THEN txt \o "\n\n<pin> **Districts highlighted on map: "
             \o Join(mentioned, ", ") \o "**"
    ELSE txt

\* a trigger override that yields to a command already present
TriggerUnlessCommand(trigger, action) ==
    IF trigger /\ action = NoAction
    THEN [type |-> "highlight_postal_codes", postal_codes |-> HIGHLIGHT_POSTAL_CODES]
    ELSE action

\* `if is_trigger: action = {...HIGHLIGHT_POSTAL_CODES}`
TriggerOverride(trigger, action) ==
    IF trigger
    THEN [type |-> "highlight_postal_codes", postal_codes |-> HIGHLIGHT_POSTAL_CODES]
    ELSE action

\* the line appended with the trigger override
TriggerNote(trigger, txt) ==
    IF trigger /\ ~Contains(Lower(txt), "parcels")
    THEN txt \o "\n\n**Relevant land parcels highlighted on map.**"
    ELSE txt

(***************************************************************************)
(* The chat turn: the route /api/chat and chat_rag.                        *)
(***************************************************************************)

\* the thread that serves the chat request
ChatThread == "t1"

NoResult == [status |-> 0, error |-> FALSE, response |-> "", action |-> NoAction]
\* an error payload that still carries a command
ErrorWithCommand(code) ==
    [status |-> code, error |-> TRUE, response |-> "", action |-> [type |-> "clear_map"]]
ErrorResult(code) == [status |-> code, error |-> TRUE, response |-> "", action |-> NoAction]
\* jsonify(result): the action key is present only `if action`
OkResult(txt, action) == [status |-> 200, error |-> FALSE, response |-> txt, action |-> action]

\* what the request body's message can be: up to MaxMsgPieces of these
MaxMsgPieces == 2
MsgPieces == {"Data Center", "tuas", "MK5", "hi"}
Messages == Concats(MsgPieces, MaxMsgPieces)

\* what the model can answer in a chat turn: up to MaxReplyPieces of these
MaxReplyPieces == 2
ReplyPieces == {"ACTION:", "CLEAR", "DISTRICT:MK01", "\n", "ok"}
Replies == Concats(ReplyPieces, MaxReplyPieces)

\* what the parser is run on: up to MaxParsePieces of these
MaxParsePieces == 5
ParsePieces == {"ACTION:", "CLEAR", "SHOW_ALL", "\n", " ", "ok"}
ParseReplies == Concats(ParsePieces, MaxParsePieces)

ChatIdle ==
    /\ stage = "idle"
    /\ message = ""
    /\ is_trigger = FALSE
    /\ mentioned_districts = <<>>
    /\ reply = ""
    /\ text = ""
    /\ parsed = NoAction
    /\ result = NoResult
    /\ called = {}
    /\ failures = {}
    /\ route = ""

\* no pure function is being applied
PureIdle ==
    /\ parcel = NoParcel
    /\ districts = <<>>
    /\ point = <<0, 0>>
    /\ polygon = <<>>
    /\ inside = FALSE

\* POST /api/chat: strip the message, refuse an empty one, else enter
\* chat_rag, which refuses when the client is not configured, else
\* resolves the mentioned districts and calls get_jtc_buildings for the
\* context
chat(m) ==
    /\ stage = "idle"
    /\ pc[ChatThread] = "idle"
    /\ route' = "/api/chat"
    /\ message' = Strip(m)
    /\ UNCHANGED <<reply, text, parsed, openai_client, failures>>
    /\ UNCHANGED pureVars
    /\ UNCHANGED slaVars
    /\ IF Strip(m) = ""
       THEN /\ result' = ErrorResult(400)
            /\ stage' = "done"
            /\ UNCHANGED <<is_trigger, mentioned_districts, called>>
            /\ UNCHANGED cacheVars
       ELSE IF ~openai_client
       THEN /\ result' = ErrorResult(503)
            /\ stage' = "done"
            /\ is_trigger' = IsTrigger(Strip(m))
            /\ UNCHANGED <<mentioned_districts, called>>
            /\ UNCHANGED cacheVars
       ELSE /\ is_trigger' = IsTrigger(Strip(m))
            /\ mentioned_districts' = find_districts_in_message(Strip(m))
            /\ stage' = "context"
            /\ result' = NoResult
            /\ called' = {"get_jtc_buildings"}
            /\ CallGetJtcBuildings(ChatThread)
            /\ touched' = touched

\* the dataset fetch of thread t's get_jtc_buildings call failed
DatasetFailure(t) == IF Failed(t) THEN {"get_jtc_buildings"} ELSE {}

\* chat_rag after get_jtc_buildings returned: the model call raises, and
\* the except branch answers 500
chat_rag_fails ==
    /\ stage = "context"
    /\ ReturnFromCall(ChatThread)
    /\ result' = ErrorResult(500)
    /\ stage' = "done"
    /\ called' = called \cup {"model"}
    /\ failures' = DatasetFailure(ChatThread) \cup {"model"}
    /\ UNCHANGED <<message, is_trigger, mentioned_districts, reply, text, parsed,
                   openai_client, route>>
    /\ UNCHANGED pureVars
    /\ UNCHANGED slaVars

\* chat_rag after get_jtc_buildings returned: the model answers r; parse
\* the ACTION lines, apply the two overrides, return the payload
chat_rag(r) ==
    /\ stage = "context"
    /\ ReturnFromCall(ChatThread)
    /\ reply' = r
    /\ LET p == ParseActions(r)
           a1 == SynthesiseDistricts(mentioned_districts, p.action)
           t1 == DistrictNote(mentioned_districts, p.action, p.text)
           a2 == TriggerOverride(is_trigger, a1)
           t2 == TriggerNote(is_trigger, t1)
       IN  /\ text' = p.text
           /\ parsed' = p.action
           /\ result' = OkResult(t2, a2)
    /\ stage' = "done"
    /\ called' = called \cup {"model"}
    /\ failures' = DatasetFailure(ChatThread)
    /\ UNCHANGED <<message, is_trigger, mentioned_districts, openai_client, route>>
    /\ UNCHANGED pureVars
    /\ UNCHANGED slaVars

\* the response is sent; the next request can come
Respond ==
    /\ stage = "done"
    /\ stage' = "idle"
    /\ message' = ""
    /\ is_trigger' = FALSE
    /\ mentioned_districts' = <<>>
    /\ reply' = ""
    /\ text' = ""
    /\ parsed' = NoAction
    /\ result' = NoResult
    /\ called' = {}
    /\ failures' = {}
    /\ parcel' = NoParcel
    /\ route' = ""
    /\ UNCHANGED openai_client
    /\ UNCHANGED <<districts, point, polygon, inside>>
    /\ UNCHANGED slaVars
    /\ UNCHANGED cacheVars

\* the parser alone, on a model reply
ParseReply ==
    /\ stage = "parse"
    /\ stage' = "parsed"
    /\ text' = ParseActions(reply).text
    /\ parsed' = ParseActions(reply).action
    /\ UNCHANGED <<message, is_trigger, mentioned_districts, reply, result,
                   openai_client, route, called, failures>>
    /\ UNCHANGED pureVars
    /\ UNCHANGED slaVars
    /\ UNCHANGED cacheVars

(***************************************************************************)
(* The chat turn of /api/chat-with-tools: the document path, else chat_rag *)
(***************************************************************************)

\* what the request body's message can be: up to MaxToolPieces of these
MaxToolPieces == 3
ToolPieces == {"draft doc", " tuas", " data center", "hi"}
ToolMessages == Concats(ToolPieces, MaxToolPieces)

\* what the model can answer on the chat path of this route
ToolReplies == {"ok", "ACTION:CLEAR", "ACTION:DISTRICT:MK01"}

\* what the model can answer when asked to confirm a document for parcel p
DocReplies(p) ==
    {"Your document is ready.",
     "Tender document for " \o p.name \o " (" \o p.postal_code \o ") is ready."}

AllDocReplies == UNION {DocReplies(LAND_PARCELS[i]) : i \in 1..Len(LAND_PARCELS)}

\* result['sas_url'] of upload_to_blob and the path generate_local returns;
\* the timestamp of the file name is left out
SasUrl(postal_code) == "https://blob/LSTD_" \o postal_code \o ".docx?sas"
FilePath(postal_code) == "generated_docs/LSTD_" \o postal_code \o ".docx"

\* the text get_rag_response_with_url falls back to; the inbox emoji of
\* the source is written <inbox>
FallbackText(p, sas_url) ==
    "Generated **Land Sales Tender Document** for **" \o p.name \o "** ("
    \o p.postal_code \o ").\n\n<inbox> [Download](" \o sas_url
    \o ")\n\n*Link expires in 24 hours.*"

\* the response of the local fallback; the warning emoji is written <warn>
\* and the backquotes around the path are written '
LocalText(filepath) ==
    "Generated agreement saved to '" \o filepath
    \o "'.\n\n<warn> Configure Azure Blob Storage for shareable links."

\* a no-match response that lists only the first parcel
FirstParcelOnly == <<LAND_PARCELS[1]>>

\* the parcels the no-match response lists
ListedParcels == LAND_PARCELS

\* the response when no parcel resolves: a table of every parcel
ListingText ==
    "I couldn't identify the location. Please specify:\n\n| Code | Location |\n|------|----------|\n"
    \o Join([i \in 1..Len(ListedParcels) |->
                "| " \o ListedParcels[i].postal_code \o " | " \o ListedParcels[i].name \o " |"],
            "\n")
    \o "\n\nYou can say things like 'draft agreement for Tampines North' or 'create land sales doc for 528765'."

\* a classification that lets a trigger keyword send the turn to chat_rag
DocPathUnlessTrigger(is_doc_request, trigger) == is_doc_request /\ ~trigger

\* `if is_doc_request:` decides the path, whatever is_trigger is
TakesDocPath(is_doc_request, trigger) == is_doc_request

\* POST /api/chat-with-tools up to the first external call
chat_with_tools(m) ==
    /\ stage = "idle"
    /\ pc[ChatThread] = "idle"
    /\ route' = "/api/chat-with-tools"
    /\ UNCHANGED <<reply, text, parsed, openai_client, failures>>
    /\ UNCHANGED <<districts, point, polygon, inside>>
    /\ UNCHANGED slaVars
    /\ IF ~openai_client
       THEN /\ result' = ErrorResult(503)
            /\ stage' = "done"
            /\ UNCHANGED <<message, is_trigger, mentioned_districts, called, parcel>>
            /\ UNCHANGED cacheVars
       ELSE IF Strip(m) = ""
       THEN /\ result' = ErrorResult(400)
            /\ stage' = "done"
            /\ message' = Strip(m)
            /\ UNCHANGED <<is_trigger, mentioned_districts, called, parcel>>
            /\ UNCHANGED cacheVars
       ELSE IF TakesDocPath(is_document_request(Strip(m)), IsTrigger(Strip(m)))
       THEN /\ message' = Strip(m)
            /\ is_trigger' = IsTrigger(Strip(m))
            /\ parcel' = find_parcel_from_message(Strip(m))
            /\ IF find_parcel_from_message(Strip(m)) # NoParcel
               THEN /\ stage' = "doc"
                    /\ result' = NoResult
                    /\ called' = {"upload"}
               ELSE /\ stage' = "done"
                    /\ result' = OkResult(ListingText, NoAction)
                    /\ called' = {}
            /\ UNCHANGED mentioned_districts
            /\ UNCHANGED cacheVars
       ELSE /\ message' = Strip(m)
            /\ is_trigger' = IsTrigger(Strip(m))
            /\ mentioned_districts' = find_districts_in_message(Strip(m))
            /\ stage' = "context"
            /\ result' = NoResult
            /\ called' = {"get_jtc_buildings"}
            /\ UNCHANGED parcel
            /\ CallGetJtcBuildings(ChatThread)
            /\ touched' = touched

\* what the steps of the document path leave alone
DocFrame ==
    /\ UNCHANGED <<message, is_trigger, mentioned_districts, text, parsed, openai_client, route>>
    /\ UNCHANGED pureVars
    /\ UNCHANGED slaVars
    /\ UNCHANGED cacheVars

\* the upload succeeded and the model confirms with r
doc_uploaded(r) ==
    /\ stage = "doc"
    /\ r \in DocReplies(parcel)
    /\ reply' = r
    /\ result' = OkResult(r, [type |-> "document_generated",
                              document_url |-> SasUrl(parcel.postal_code),
                              postal_code |-> parcel.postal_code])
    /\ called' = called \cup {"model"}
    /\ failures' = {}
    /\ stage' = "done"
    /\ DocFrame

\* the upload succeeded and the model call raises: the bare except of
\* get_rag_response_with_url returns the fixed text
doc_uploaded_model_fails ==
    /\ stage = "doc"
    /\ reply' = reply
    /\ result' = OkResult(FallbackText(parcel, SasUrl(parcel.postal_code)),
                          [type |-> "document_generated",
                           document_url |-> SasUrl(parcel.postal_code),
                           postal_code |-> parcel.postal_code])
    /\ called' = called \cup {"model"}
    /\ failures' = {"model"}
    /\ stage' = "done"
    /\ DocFrame

\* the upload raises ValueError: the document is generated locally
doc_local ==
    /\ stage = "doc"
    /\ reply' = reply
    /\ result' = OkResult(LocalText(FilePath(parcel.postal_code)),
                          [type |-> "document_generated_local",
                           filepath |-> FilePath(parcel.postal_code)])
    /\ called' = called \cup {"local"}
    /\ failures' = {"upload"}
    /\ stage' = "done"
    /\ DocFrame

\* the upload raises another exception, or ValueError and then the local
\* generation raises: nothing catches it and the framework answers 500
doc_raises(local) ==
    /\ stage = "doc"
    /\ reply' = reply
    /\ result' = ErrorResult(500)
    /\ called' = IF local THEN called \cup {"local"} ELSE called
    /\ failures' = IF local THEN {"upload", "local"} ELSE {"upload"}
    /\ stage' = "done"
    /\ DocFrame

(***************************************************************************)
(* POST /api/generate-agreement, and the three POST routes side by side    *)
(***************************************************************************)

\* data.get("postal_code"): missing (None), empty, the code of a parcel,
\* a code of no parcel
AgreementCodes == {None, "", LAND_PARCELS[1].postal_code, "000000"}

\* {"success": True, "document": doc}
AgreementResult(doc) ==
    [status |-> 200, error |-> FALSE, response |-> "", action |-> NoAction,
     success |-> TRUE, document |-> doc]

\* `if not postal_code:`
NoPostalCode(postal_code) == postal_code = None \/ postal_code = ""

\* generate_agreement up to the upload
generate_agreement(postal_code) ==
    /\ stage = "idle"
    /\ route' = "/api/generate-agreement"
    /\ UNCHANGED <<message, is_trigger, mentioned_districts, reply, text, parsed,
                   openai_client, failures>>
    /\ UNCHANGED <<districts, point, polygon, inside>>
    /\ UNCHANGED slaVars
    /\ UNCHANGED cacheVars
    /\ IF NoPostalCode(postal_code)
       THEN /\ result' = ErrorResult(400)
            /\ stage' = "done"
            /\ UNCHANGED <<called, parcel>>
       ELSE IF ParcelByCode(postal_code) = NoParcel
       THEN /\ result' = ErrorResult(404)
            /\ stage' = "done"
            /\ UNCHANGED <<called, parcel>>
       ELSE /\ result' = NoResult
            /\ stage' = "agreement"
            /\ parcel' = ParcelByCode(postal_code)
            /\ called' = {"upload"}

\* the upload succeeded
agreement_uploaded ==
    /\ stage = "agreement"
    /\ result' = AgreementResult([sas_url |-> SasUrl(parcel.postal_code)])
    /\ UNCHANGED <<reply, called, failures>>
    /\ stage' = "done"
    /\ DocFrame

\* the upload raised ValueError and the document was generated locally
agreement_local ==
    /\ stage = "agreement"
    /\ result' = AgreementResult([filepath |-> FilePath(parcel.postal_code),
                                  note |-> "Blob storage not configured"])
    /\ called' = called \cup {"local"}
    /\ failures' = {"upload"}
    /\ reply' = reply
    /\ stage' = "done"
    /\ DocFrame

\* the upload raised another exception, or ValueError and then the local
\* generation raised: `except Exception` answers 500
agreement_raises(local) ==
    /\ stage = "agreement"
    /\ result' = ErrorResult(500)
    /\ called' = IF local THEN called \cup {"local"} ELSE called
    /\ failures' = IF local THEN {"upload", "local"} ELSE {"upload"}
    /\ reply' = reply
    /\ stage' = "done"
    /\ DocFrame

\* what the message field of a chat body can be: up to MaxTurnPieces of
\* these; the empty string is also what data.get("message", "") gives
\* for a body without the field
MaxTurnPieces == 2
TurnPieces == {" ", "\n", "hi", "draft doc tuas"}
TurnMessages == Concats(TurnPieces, MaxTurnPieces)

Init == CacheInit /\ ChatIdle /\ PureIdle /\ SlaUnused /\ openai_client = TRUE

Next ==
    \/ Tick
    \/ \E t \in Threads : Enter(t)
    \/ \E t \in Threads : Step(t)
    \/ \E t \in Threads : jtc_buildings(t)

Spec == Init /\ [][Next]_vars

\* every outbound request carries a timeout and every thread is scheduled:
\* a call that can take its next line eventually takes it
FairSpec == Spec /\ \A t \in Threads : WF_vars(Step(t))

\* one request thread serving chat turns one after the other
ChatNext ==
    \/ \E m \in Messages : chat(m)
    \/ \E t \in {ChatThread} : Step(t)
    \/ chat_rag_fails
    \/ \E r \in Replies : chat_rag(r)
    \/ Respond

\* the deployment has the client configured or not
ChatInit == CacheInit /\ ChatIdle /\ PureIdle /\ SlaUnused /\ openai_client \in BOOLEAN

ChatSpec == ChatInit /\ [][ChatNext]_vars

\* chat turns whose reply can carry a POSTAL or DISTRICT directive with an
\* empty code list: up to MaxListPieces of ListPieces
MaxListPieces == 3
ListPieces == {"\n", "ACTION:DISTRICT:", "ACTION:POSTAL:", " , ", "MK01"}
ListReplies == Concats(ListPieces, MaxListPieces)
ListMessages == {"hi", "tuas", "data center", "data center in tuas"}

ListNext ==
    \/ \E m \in ListMessages : chat(m)
    \/ \E t \in {ChatThread} : Step(t)
    \/ chat_rag_fails
    \/ \E r \in ListReplies : chat_rag(r)
    \/ Respond

ListSpec == Init /\ [][ListNext]_vars

\* one request thread serving /api/chat-with-tools turns
ToolsNext ==
    \/ \E m \in ToolMessages : chat_with_tools(m)
    \/ \E t \in {ChatThread} : Step(t)
    \/ chat_rag_fails
    \/ \E r \in ToolReplies : chat_rag(r)
    \/ \E r \in AllDocReplies : doc_uploaded(r)
    \/ doc_uploaded_model_fails
    \/ doc_local
    \/ \E local \in BOOLEAN : doc_raises(local)
    \/ Respond

ToolsSpec == ChatInit /\ [][ToolsNext]_vars

\* one request thread serving the three POST routes
EndpointNext ==
    \/ \E m \in TurnMessages : chat(m)
    \/ \E m \in TurnMessages : chat_with_tools(m)
    \/ \E c \in AgreementCodes : generate_agreement(c)
    \/ \E t \in {ChatThread} : Step(t)
    \/ chat_rag_fails
    \/ \E r \in ToolReplies : chat_rag(r)
    \/ \E r \in AllDocReplies : doc_uploaded(r)
    \/ doc_uploaded_model_fails
    \/ doc_local
    \/ \E local \in BOOLEAN : doc_raises(local)
    \/ agreement_uploaded
    \/ agreement_local
    \/ \E local \in BOOLEAN : agreement_raises(local)
    \/ Respond

EndpointSpec == ChatInit /\ [][EndpointNext]_vars

\* find_parcel_from_message applied to a message of up to MaxParcelPieces
\* of ParcelPieces
MaxParcelPieces == 3
ParcelPieces == {"528872", "123456", " ", "Tampines", "north", "kadut", "x"}
ParcelMessages == Concats(ParcelPieces, MaxParcelPieces)

\* no chat turn is being served and the message is m
PureInit(m) ==
    /\ CacheInit /\ PureIdle /\ SlaUnused
    /\ stage = "idle"
    /\ message = m
    /\ is_trigger = FALSE
    /\ mentioned_districts = <<>>
    /\ reply = ""
    /\ text = ""
    /\ parsed = NoAction
    /\ result = NoResult
    /\ called = {}
    /\ failures = {}
    /\ openai_client = TRUE
    /\ route = ""

ParcelInit == \E m \in ParcelMessages : PureInit(m)

\* parcel = find_parcel_from_message(message)
ResolveParcel ==
    /\ stage = "idle"
    /\ stage' = "resolved"
    /\ parcel' = find_parcel_from_message(message)
    /\ UNCHANGED <<message, is_trigger, mentioned_districts, reply, text, parsed,
                   result, openai_client, route, called, failures>>
    /\ UNCHANGED <<districts, point, polygon, inside>>
    /\ UNCHANGED slaVars
    /\ UNCHANGED cacheVars

ParcelSpec == ParcelInit /\ [][ResolveParcel]_vars

\* find_districts_in_message applied to a message of up to
\* MaxDistrictPieces of DistrictPieces, then to its own output
MaxDistrictPieces == 5
DistrictPieces == {"MK31", ", ", "MK5", "mk07", "tuas"}
DistrictMessages == Concats(DistrictPieces, MaxDistrictPieces)

DistrictInit == \E m \in DistrictMessages : PureInit(m)

\* districts = find_districts_in_message(message)
ExtractDistricts ==
    /\ stage = "idle"
    /\ stage' = "extracted"
    /\ districts' = find_districts_in_message(message)
    /\ UNCHANGED <<message, is_trigger, mentioned_districts, reply, text, parsed,
                   result, openai_client, route, called, failures>>
    /\ UNCHANGED <<parcel, point, polygon, inside>>
    /\ UNCHANGED slaVars
    /\ UNCHANGED cacheVars

\* the codes returned, comma-joined, are the next message
RescanDistricts ==
    /\ stage = "extracted"
    /\ stage' = "rescanned"
    /\ message' = Join(districts, ", ")
    /\ mentioned_districts' = find_districts_in_message(Join(districts, ", "))
    /\ UNCHANGED <<is_trigger, reply, text, parsed, result, openai_client, route, called,
                   failures>>
    /\ UNCHANGED pureVars
    /\ UNCHANGED slaVars
    /\ UNCHANGED cacheVars

DistrictNext == ExtractDistricts \/ RescanDistricts

DistrictSpec == DistrictInit /\ [][DistrictNext]_vars

\* find_districts_in_message applied to messages of up to MaxTokenPieces
\* of these: codes in upper, lower and mixed case, with and without a
\* space before the number, and an alias
MaxTokenPieces == 3
TokenPieces == {"Mk5", "mK 12", "TS3", "ts07", " ", "tuas"}
TokenMessages == Concats(TokenPieces, MaxTokenPieces)

TokenInit == \E m \in TokenMessages : PureInit(m)

TokenSpec == TokenInit /\ [][ExtractDistricts]_vars

\* point_in_polygon applied to a point of the grid and a ring of up to
\* MaxVertices vertices
MaxVertices == 3
VertexCoords == {0, 2, 4}
PointCoords == 0..4
Rings == UNION {[1..n -> VertexCoords \X VertexCoords] : n \in 0..MaxVertices}

PolygonInit ==
    /\ CacheInit /\ ChatIdle /\ SlaUnused
    /\ openai_client = TRUE
    /\ parcel = NoParcel
    /\ districts = <<>>
    /\ point \in PointCoords \X PointCoords
    /\ polygon \in Rings
    /\ inside = FALSE

\* inside = point_in_polygon(point, polygon)
TestPoint ==
    /\ stage = "idle"
    /\ stage' = "tested"
    /\ inside' = point_in_polygon(point, polygon)
    /\ UNCHANGED <<message, is_trigger, mentioned_districts, reply, text, parsed,
                   result, openai_client, route, called, failures>>
    /\ UNCHANGED <<parcel, districts, point, polygon>>
    /\ UNCHANGED slaVars
    /\ UNCHANGED cacheVars

PolygonSpec == PolygonInit /\ [][TestPoint]_vars

\* one request thread serving lookups over each dataset of RegionDatasets
RegionInit ==
    /\ CacheInit /\ ChatIdle /\ PureIdle
    /\ openai_client = TRUE
    /\ SlaIdle
    /\ sla_file \in RegionDatasets

RegionNext ==
    \/ \E t \in {ChatThread} : sla_district_lookup(t)
    \/ \E t \in {ChatThread} : sla_district_lookup_invalid(t)
    \/ \E t \in {ChatThread} : ReadFile(t)
    \/ \E t \in {ChatThread} : ReadFails(t)
    \/ \E t \in {ChatThread} : \E pt \in RegionPoints : lookup_returns(t, pt)

RegionSpec == RegionInit /\ [][RegionNext]_vars

\* the request threads reading the regions concurrently, over two files
LoadFiles ==
    { <<>>,
      << [survey_district |-> "MK01", type |-> "Polygon",
          coordinates |-> <<OuterA, HoleA>>],
         [survey_district |-> "MK02", type |-> "Polygon",
          coordinates |-> <<OuterB>>] >> }
LoadPoints == { <<2, 2>>, <<5, 5>>, <<0, 6>> }

LoadInit ==
    /\ CacheInit /\ ChatIdle /\ PureIdle
    /\ openai_client = TRUE
    /\ SlaIdle
    /\ sla_file \in LoadFiles

LoadNext ==
    \/ \E t \in Threads : sla_district_lookup(t)
    \/ \E t \in Threads : sla_district_lookup_invalid(t)
    \/ \E t \in Threads : ReadFile(t)
    \/ \E t \in Threads : ReadFails(t)
    \/ \E t \in Threads : \E pt \in LoadPoints : lookup_returns(t, pt)

LoadSpec == LoadInit /\ [][LoadNext]_vars

\* the parser applied to each reply of ParseReplies
ParseInit ==
    /\ CacheInit
    /\ stage = "parse"
    /\ message = ""
    /\ is_trigger = FALSE
    /\ mentioned_districts = <<>>
    /\ reply \in ParseReplies
    /\ text = ""
    /\ parsed = NoAction
    /\ result = NoResult
    /\ openai_client = TRUE
    /\ route = ""
    /\ called = {}
    /\ failures = {}
    /\ PureIdle /\ SlaUnused

ParseSpec == ParseInit /\ [][ParseReply]_vars

\* the parser applied to a line of text followed by one directive line
\* whose body is made of up to MaxBodyPieces of BodyPieces
MaxBodyPieces == 4
BodyPieces == {"SHOW_ALL", "CLEAR", "FILTER:", "POSTAL:", "DISTRICT:",
               "data center", "Mk01", ",", " 1 "}
ReplyHead == "Here are the buildings.\nACTION:"
DirectiveReplies == {ReplyHead \o b : b \in Concats(BodyPieces, MaxBodyPieces)}

DirectiveInit ==
    /\ CacheInit
    /\ stage = "parse"
    /\ message = ""
    /\ is_trigger = FALSE
    /\ mentioned_districts = <<>>
    /\ reply \in DirectiveReplies
    /\ text = ""
    /\ parsed = NoAction
    /\ result = NoResult
    /\ openai_client = TRUE
    /\ route = ""
    /\ called = {}
    /\ failures = {}
    /\ PureIdle /\ SlaUnused

DirectiveSpec == DirectiveInit /\ [][ParseReply]_vars

(***************************************************************************)
(* Claims about the cache.                                                 *)
(***************************************************************************)

\* C1: after a call fetched a snapshot at time t0, every later call that
\* starts before t0 + 1 hour is answered from the cache with no upstream
\* request; a call that refetches issues exactly one initiate-download
\* and one payload download.
C1_CacheFreshness ==
    \A t \in Threads :
        /\ mustHit[t] => nInit[t] = 0 /\ nDl[t] = 0
        /\ mustHit[t] /\ pc[t] = "done" => outcome[t] = "hit" /\ Truthy(ret[t])
        /\ pc[t] = "done" /\ outcome[t] = "fetched" => nInit[t] = 1 /\ nDl[t] = 1

\* C2: when a refetch fails while a previous, expired snapshot is
\* stored, the caller of get_jtc_buildings receives that snapshot and the
\* route does not answer 502.
C2_StaleSnapshotOnFailure ==
    [][\A t \in Threads :
          (pc[t] # "done" /\ pc'[t] = "done" /\ outcome'[t] \in FailKinds
             /\ Truthy(jtc_cache.data) /\ ~Before(now[t], jtc_cache.expires))
          => ret'[t] = jtc_cache.data /\ RouteStatus(ret'[t]) = 200]_vars

\* C3: a call whose refetch failed, at whichever step, has not changed
\* the stored snapshot nor the stored expiry.
C3_FailedRefetchKeepsCache ==
    \A t \in Threads : Failed(t) => ~touched[t]

\* C3 witness: a payload download failed while an expired snapshot was
\* stored.
C3_Witness ==
    \E t \in Threads :
        /\ pc[t] = "done" /\ outcome[t] = "dlraise"
        /\ Truthy(jtc_cache.data) /\ ~Before(now[t], jtc_cache.expires)

\* C4: the cache is empty or holds a snapshot with its expiry, and a call
\* answered from the cache returns a snapshot that was stored together
\* with the expiry the call compared against.
C4_CacheConsistency ==
    /\ (jtc_cache.data = None <=> jtc_cache.expires = NoTime)
    /\ \A t \in Threads :
          pc[t] = "done" /\ outcome[t] = "hit" => retExp[t] = usedExp[t]

\* C5: under any interleaving each call issues at most one initiate
\* request and at most one payload download, returns a complete payload
\* or None, and terminates.
C5_ConcurrentRefetch ==
    /\ [](\A t \in Threads :
            /\ nInit[t] <= 1 /\ nDl[t] <= 1
            /\ pc[t] = "done" => ret[t] \in Payloads \cup {None})
    /\ \A t \in Threads : (pc[t] # "idle") ~> (pc[t] = "done")

\* C5 witness: two calls are refetching at the same time and one has
\* already downloaded its payload.
C5_Witness ==
    /\ pc["t1"] = "store" /\ pc["t2"] = "download"
    /\ nInit["t1"] = 1 /\ nInit["t2"] = 1

(***************************************************************************)
(* Claims about the chat turn (ChatSpec)                                   *)
(***************************************************************************)

\* a chat turn that completed successfully
TurnCompleted == stage = "done" /\ result.status = 200

\* highlight-points over the postal codes of all LAND_PARCELS
HighlightAllParcels ==
    [type |-> "highlight_postal_codes",
     postal_codes |-> [i \in 1..Len(LAND_PARCELS) |-> LAND_PARCELS[i].postal_code]]

\* C6: whenever the message holds a trigger keyword and the turn completed
\* successfully, the final command is highlight-points over the postal
\* codes of all LAND_PARCELS, whatever the parser and the region-mention
\* synthesis produced.
C6_TriggerOverrideWins ==
    (TurnCompleted /\ IsTrigger(message)) => result.action = HighlightAllParcels

\* a trigger message answered by a reply whose parsed command is
\* highlight-regions(["MK01"])
C6_Witness ==
    /\ TurnCompleted
    /\ IsTrigger(message)
    /\ parsed = [type |-> "highlight_districts", district_codes |-> <<"MK01">>]

\* C7: with no trigger keyword in the message: region codes resolved and no
\* parsed command give highlight-regions over exactly the resolved codes; a
\* parsed command is the final command unchanged; neither gives no command.
C7_NoTriggerPrecedence ==
    (TurnCompleted /\ ~IsTrigger(message)) =>
        /\ (DistrictSet(message) # {} /\ parsed = NoAction) =>
               /\ result.action.type = "highlight_districts"
               /\ DOMAIN result.action = {"type", "district_codes"}
               /\ Range(result.action.district_codes) = DistrictSet(message)
               /\ Len(result.action.district_codes) = Cardinality(DistrictSet(message))
        /\ (parsed # NoAction) => result.action = parsed
        /\ (DistrictSet(message) = {} /\ parsed = NoAction) => result.action = NoAction

\* a message without trigger keyword that resolves to region codes,
\* answered by a reply that carries its own command
C7_Witness ==
    /\ TurnCompleted
    /\ ~IsTrigger(message)
    /\ DistrictSet(message) # {}
    /\ parsed = [type |-> "clear_map"]

(***************************************************************************)
(* Claims about the ACTION-line parser (ParseSpec)                         *)
(***************************************************************************)

\* the lines of the reply, and those of them that begin with the sentinel
ReplyLines == Split(reply, "\n")
DirectiveLines == {i \in 1..Len(ReplyLines) : IsActionLine(ReplyLines[i])}
FirstDirective == ReplyLines[CHOOSE i \in DirectiveLines : \A j \in DirectiveLines : i <= j]

\* C8: when the reply holds several ACTION lines, the parsed command is the
\* one the first of them encodes; later ACTION lines never change it.
C8_FirstDirectiveWins ==
    (/\ stage = "parsed"
     /\ Cardinality(DirectiveLines) >= 2
     /\ ParseCommand(DirectiveBody(FirstDirective)) # NoAction)
    => parsed = ParseCommand(DirectiveBody(FirstDirective))

RECURSIVE NonDirective(_)
\* the lines that do not begin with the sentinel, in order
NonDirective(lines) ==
    IF lines = <<>> THEN <<>>
    ELSE IF IsActionLine(Head(lines)) THEN NonDirective(Tail(lines))
    ELSE <<Head(lines)>> \o NonDirective(Tail(lines))

\* C9: no line of the cleaned text begins (after trimming) with ACTION:,
\* recognised or not; a reply whose directive bodies are all unrecognised
\* yields no command, and the text of its other lines is still returned.
C9_DirectiveLinesExcised ==
    stage = "parsed" =>
        /\ \A i \in 1..Len(Split(text, "\n")) : ~IsActionLine(Split(text, "\n")[i])
        /\ (\A i \in DirectiveLines : ParseCommand(DirectiveBody(ReplyLines[i])) = NoAction)
               => parsed = NoAction
        /\ text = Strip(Join(NonDirective(ReplyLines), "\n"))

\* a reply with an unrecognised directive line and other text
C9_Witness ==
    /\ stage = "parsed"
    /\ \E i \in DirectiveLines : ParseCommand(DirectiveBody(ReplyLines[i])) = NoAction
    /\ parsed = NoAction
    /\ text # ""

\* t is r without its leading and trailing whitespace
AllWhitespace(s) == \A k \in 1..Len(s) : Char(s, k) \in Whitespace
IsTrimOf(t, r) ==
    /\ t # "" => (Char(t, 1) \notin Whitespace /\ Char(t, Len(t)) \notin Whitespace)
    /\ \E i \in 0..(Len(r) - Len(t)) :
           /\ SubSeq(r, i + 1, i + Len(t)) = t
           /\ AllWhitespace(SubSeq(r, 1, i))
           /\ AllWhitespace(SubSeq(r, i + Len(t) + 1, Len(r)))

\* C10 as stated: a reply with no ACTION line comes back identical,
\* character for character, leading and trailing whitespace included, and
\* no command is parsed.
C10_TextIdentical ==
    (stage = "parsed" /\ DirectiveLines = {}) => (text = reply /\ parsed = NoAction)

\* C10: a reply with no ACTION line comes back with its leading and
\* trailing whitespace removed and otherwise character for character, and
\* no command is parsed.
C10_TextTrimmed ==
    (stage = "parsed" /\ DirectiveLines = {}) => (IsTrimOf(text, reply) /\ parsed = NoAction)

\* a reply of several lines with no ACTION line and whitespace at an end
C10_Witness ==
    /\ stage = "parsed"
    /\ DirectiveLines = {}
    /\ Contains(text, "\n")
    /\ text # reply

(***************************************************************************)
(* Claims about the directive mapping (DirectiveSpec)                      *)
(***************************************************************************)

\* the directive body of the reply: what follows ACTION: in its trimmed
\* second line
ReplyBody == SubSeq(Strip(reply), Len(ReplyHead) + 1, Len(Strip(reply)))

\* the comma-separated entries of s, trimmed, the empty ones removed, in order
Entries(s) ==
    LET pieces == Split(s, ",")
        kept   == {i \in 1..Len(pieces) : Strip(pieces[i]) # ""}
        Nth(k) == CHOOSE i \in kept : Cardinality({j \in kept : j < i}) = k - 1
    IN  [k \in 1..Cardinality(kept) |-> Strip(pieces[Nth(k)])]

\* C11: SHOW_ALL gives show-all, CLEAR gives clear, FILTER:<t> gives
\* filter-by-type with t lowercased, POSTAL:<list> gives highlight-points
\* over the trimmed non-empty entries, DISTRICT:<list> gives
\* highlight-regions over the trimmed, uppercased non-empty entries; the
\* directive line is not part of the cleaned text.
C11_DirectiveMapping ==
    (stage = "parsed" /\ reply \in DirectiveReplies) =>
        /\ text = "Here are the buildings."
        /\ ReplyBody = "SHOW_ALL" => parsed = [type |-> "show_buildings"]
        /\ ReplyBody = "CLEAR" => parsed = [type |-> "clear_map"]
        /\ StartsWith(ReplyBody, "FILTER:") =>
               parsed = [type |-> "show_buildings", filter |-> Lower(From(ReplyBody, 7))]
        /\ StartsWith(ReplyBody, "POSTAL:") =>
               parsed = [type |-> "highlight_postal_codes",
                         postal_codes |-> Entries(From(ReplyBody, 7))]
        /\ StartsWith(ReplyBody, "DISTRICT:") =>
               /\ parsed.type = "highlight_districts"
               /\ DOMAIN parsed = {"type", "district_codes"}
               /\ Len(parsed.district_codes) = Len(Entries(From(ReplyBody, 9)))
               /\ \A k \in 1..Len(parsed.district_codes) :
                      parsed.district_codes[k] = Upper(Entries(From(ReplyBody, 9))[k])

\* the reply 'Here are the buildings.' + 'ACTION:FILTER:data center'
C11_Witness ==
    /\ stage = "parsed"
    /\ reply = "Here are the buildings.\nACTION:FILTER:data center"
    /\ text = "Here are the buildings."
    /\ parsed = [type |-> "show_buildings", filter |-> "data center"]

(***************************************************************************)
(* Claims about the turn of /api/chat-with-tools (ToolsSpec)               *)
(***************************************************************************)

\* the turn reached a terminal state
TurnOver == stage = "done"

\* the turn took the document path
DocTurn == openai_client /\ message # "" /\ is_document_request(message)

\* C12: a failure of an external call (dataset fetch, model completion on
\* either path, document upload) ends the turn in the ERROR state: an error
\* payload with a non-success status, never DONE or DOC_DONE.
C12_FailureEndsInError ==
    (TurnOver /\ failures # {}) => (result.error /\ result.status # 200)

CommandTypes == {"show_buildings", "clear_map", "highlight_postal_codes",
                 "highlight_districts", "document_generated", "document_generated_local"}

\* C13: a terminal result is an error payload without command, or a success
\* payload with a response and at most one command; never an error together
\* with a command.
C13_ResultShape ==
    TurnOver =>
        /\ DOMAIN result = {"status", "error", "response", "action"}
        /\ result.error => (result.status \in {400, 500, 503} /\ result.action = NoAction)
        /\ ~result.error =>
               /\ result.status = 200
               /\ result.action = NoAction \/ result.action.type \in CommandTypes

\* a trigger message whose turn ended in an error
C13_Witness == TurnOver /\ is_trigger /\ result.status = 500 /\ result.action = NoAction

\* C14: a message with document intent takes the document path even with
\* a trigger keyword in it: no highlight command results, the dataset is not
\* fetched and the dataset cache does not change during the turn.
C14_DocIntentFirst ==
    /\ []((stage \in {"doc", "done"} /\ DocTurn) =>
             /\ result.action.type \notin {"highlight_postal_codes", "highlight_districts"}
             /\ "get_jtc_buildings" \notin called
             /\ pc[ChatThread] = "idle")
    /\ [][(stage' \in {"doc", "done"} /\ openai_client /\ message' # ""
           /\ is_document_request(message')) => jtc_cache' = jtc_cache]_vars

\* a document request with a trigger keyword, answered with a document
C14_Witness ==
    /\ TurnOver /\ DocTurn /\ IsTrigger(message)
    /\ result.action.type = "document_generated"

\* C17: on the document path with no parcel resolved the turn succeeds, the
\* response lists the code and the name of every parcel, there is no command
\* and neither upload, local generation nor the model was called.
C17_NoParcelListsAll ==
    (TurnOver /\ DocTurn /\ find_parcel_from_message(message) = NoParcel) =>
        /\ result.status = 200 /\ ~result.error
        /\ result.action = NoAction
        /\ called = {} /\ failures = {}
        /\ \A i \in 1..Len(LAND_PARCELS) :
               /\ Contains(result.response, LAND_PARCELS[i].postal_code)
               /\ Contains(result.response, LAND_PARCELS[i].name)

\* a document request that names no location
C17_Witness ==
    /\ TurnOver /\ message = "draft doc" /\ parcel = NoParcel
    /\ result.status = 200

\* C18: on the document path with a parcel resolved and the turn
\* successful, the command is document-generated with the artifact and the
\* parcel's code, and the response mentions the parcel's name and code.
C18_DocumentResult ==
    (TurnOver /\ DocTurn /\ parcel # NoParcel /\ result.status = 200) =>
        /\ result.action.type \in {"document_generated", "document_generated_local"}
        /\ \/ "document_url" \in DOMAIN result.action
           \/ "filepath" \in DOMAIN result.action
        /\ "postal_code" \in DOMAIN result.action
        /\ result.action.postal_code = parcel.postal_code
        /\ Contains(result.response, parcel.name)
        /\ Contains(result.response, parcel.postal_code)

(***************************************************************************)
(* Claims about find_parcel_from_message (ParcelSpec)                      *)
(***************************************************************************)

\* the known postal codes that stand in the message as 6-digit tokens
KnownCodesIn(msg) ==
    {SubSeq(msg, i, i + 5) : i \in {j \in 1..Len(msg) : SixDigitsAt(msg, j)}}
    \cap {LAND_PARCELS[i].postal_code : i \in 1..Len(LAND_PARCELS)}

\* the entries of LOCATION_ALIASES with an alias in the lowercased message
AliasEntriesIn(msg) ==
    {k \in 1..Len(LOCATION_ALIASES) :
        \E n \in 1..Len(LOCATION_ALIASES[k][2]) :
            Contains(Lower(msg), LOCATION_ALIASES[k][2][n])}

\* the parcels with a name word of more than 3 characters in the
\* lowercased message
NameEntriesIn(msg) ==
    {i \in 1..Len(LAND_PARCELS) :
        \E w \in Range(Split(Lower(LAND_PARCELS[i].name), " ")) :
            Len(w) > 3 /\ Contains(Lower(msg), w)}

Least(S) == CHOOSE k \in S : \A j \in S : k <= j

\* C15: a known postal code in the message is returned whatever aliases or
\* name words the message holds; otherwise the first alias entry; otherwise
\* the first parcel in list order with a name word longer than 3 characters
\* in the lowercased message; otherwise no match.
C15_StrategyPriority ==
    stage = "resolved" =>
        IF KnownCodesIn(message) # {}
        THEN parcel.postal_code \in KnownCodesIn(message)
        ELSE IF AliasEntriesIn(message) # {}
        THEN parcel.postal_code = LOCATION_ALIASES[Least(AliasEntriesIn(message))][1]
        ELSE IF NameEntriesIn(message) # {}
        THEN parcel = LAND_PARCELS[Least(NameEntriesIn(message))]
        ELSE parcel = NoParcel

RECURSIVE SwapCase(_)
\* s with the case of every letter flipped
SwapCase(s) ==
    IF Len(s) = 0 THEN ""
    ELSE (IF Head(s) \in UpperSet THEN LowerChar(Head(s)) ELSE UpperChar(Head(s)))
         \o SwapCase(Tail(s))

\* C16: a message and its re-casings (all lower, all upper, every letter
\* flipped) resolve to the same parcel, or all to no match.
C16_CaseInsensitive ==
    stage = "resolved" =>
        /\ find_parcel_from_message(Lower(message)) = parcel
        /\ find_parcel_from_message(Upper(message)) = parcel
        /\ find_parcel_from_message(SwapCase(message)) = parcel

\* 'Tampines north' resolves to the Tampines parcel, as do 'tampines
\* north' and 'TAMPINES NORTH'
C16_Witness ==
    /\ stage = "resolved"
    /\ message = "Tampines north"
    /\ parcel.postal_code = "528872"
    /\ find_parcel_from_message("TAMPINES NORTH") = parcel
    /\ find_parcel_from_message("tampines") = parcel

(***************************************************************************)
(* Claims about find_districts_in_message (DistrictSpec)                   *)
(***************************************************************************)

\* C19: scanning the comma-joined codes that a scan returned yields the
\* same set of codes; 'MK31, MK5, mk07' yields exactly MK31, MK05, MK07.
C19_ExtractionIdempotent ==
    /\ stage = "rescanned" => Range(mentioned_districts) = Range(districts)
    /\ (stage = "extracted" /\ message = "MK31, MK5, mk07") =>
           /\ Range(districts) = {"MK31", "MK05", "MK07"}
           /\ Len(districts) = 3

\* the codes of 'MK31, MK5, mk07' (or of a message with the same codes),
\* scanned again
C19_Witness ==
    /\ stage = "rescanned"
    /\ Range(districts) = {"MK31", "MK05", "MK07"}
    /\ Range(mentioned_districts) = {"MK31", "MK05", "MK07"}

(***************************************************************************)
(* Claims about point_in_polygon (PolygonSpec)                             *)
(***************************************************************************)

\* twice the signed area of the triangle a, b, c: positive when c is
\* strictly left of the line from a to b
Cross(a, b, c) == (b[1] - a[1]) * (c[2] - a[2]) - (b[2] - a[2]) * (c[1] - a[1])

\* the edges of the ring, the closing edge from the last vertex to the
\* first included, as pairs of vertex indices
RingEdges == {<<i, IF i = Len(polygon) THEN 1 ELSE i + 1>> : i \in 1..Len(polygon)}

\* the edge e is crossed by the rightward ray from the point: exactly one
\* endpoint is strictly above the point and the point is strictly left of
\* the edge's intercept, that is, left of the edge directed upwards
EdgeCrossed(e) ==
    LET a  == polygon[e[1]]
        b  == polygon[e[2]]
        lo == IF a[2] <= b[2] THEN a ELSE b
        hi == IF a[2] <= b[2] THEN b ELSE a
    IN  /\ (a[2] > point[2]) # (b[2] > point[2])
        /\ Cross(lo, hi, point) > 0

\* the ring is convex with a non-empty interior and the point is strictly
\* inside it
StrictlyInsideConvex ==
    \E s \in {1, -1} :
        /\ \A e \in RingEdges : \A k \in 1..Len(polygon) :
               s * Cross(polygon[e[1]], polygon[e[2]], polygon[k]) >= 0
        /\ \E e \in RingEdges : \E k \in 1..Len(polygon) :
               Cross(polygon[e[1]], polygon[e[2]], polygon[k]) # 0
        /\ \A e \in RingEdges :
               polygon[e[1]] # polygon[e[2]] =>
                   s * Cross(polygon[e[1]], polygon[e[2]], point) > 0

\* the point is outside the bounding box of the ring
OutsideBoundingBox ==
    \/ \A k \in 1..Len(polygon) : point[1] < polygon[k][1]
    \/ \A k \in 1..Len(polygon) : point[1] > polygon[k][1]
    \/ \A k \in 1..Len(polygon) : point[2] < polygon[k][2]
    \/ \A k \in 1..Len(polygon) : point[2] > polygon[k][2]

\* C20: the result is the parity of the number of ring edges, closing edge
\* included, crossed by the rightward ray; so it is true strictly inside a
\* convex ring and false outside the ring's bounding box, and the same
\* input gives the same result.
C20_RayCasting ==
    stage = "tested" =>
        /\ inside = (Cardinality({e \in RingEdges : EdgeCrossed(e)}) % 2 = 1)
        /\ StrictlyInsideConvex => inside
        /\ OutsideBoundingBox => ~inside
        /\ inside = point_in_polygon(point, polygon)

\* a point strictly inside a triangle, level with one of its vertices
C20_Witness ==
    /\ stage = "tested"
    /\ StrictlyInsideConvex
    /\ \E k \in 1..Len(polygon) : polygon[k][2] = point[2]
    /\ inside

(***************************************************************************)
(* Claims about the refusals of the POST routes (EndpointSpec)             *)
(***************************************************************************)

\* the two chat endpoints
ChatRoutes == {"/api/chat", "/api/chat-with-tools"}

\* the turn made no external call and is not inside get_jtc_buildings
NothingAttempted == called = {} /\ pc[ChatThread] = "idle"

\* C21: with the language-model client not configured, a chat turn on
\* either chat endpoint ends with status 503 (not 500 or 502), having made
\* no dataset fetch, no model call and no document generation.
C21_NotConfigured ==
    /\ []((TurnOver /\ ~openai_client /\ route \in ChatRoutes) =>
            /\ result = ErrorResult(503)
            /\ NothingAttempted)
    /\ [][\A m \in TurnMessages :
            (~openai_client /\ (chat(m) \/ chat_with_tools(m))) =>
                UNCHANGED cacheVars]_vars

\* C22: a chat turn whose message is missing, empty or whitespace-only ends
\* with status 400 on both chat endpoints before any classification,
\* resolution, external call or cache change, and a generate-agreement
\* request without a postal code ends with status 400 before any document
\* generation.
C22_MalformedInput ==
    /\ [][\A m \in TurnMessages :
            (Strip(m) = "" /\ (chat(m) \/ chat_with_tools(m))) =>
                /\ result' = ErrorResult(400)
                /\ called' = {}
                /\ UNCHANGED <<is_trigger, mentioned_districts, parcel>>
                /\ UNCHANGED cacheVars]_vars
    /\ [][\A c \in AgreementCodes :
            (NoPostalCode(c) /\ generate_agreement(c)) =>
                /\ result' = ErrorResult(400)
                /\ called' = {}
                /\ UNCHANGED cacheVars]_vars

(***************************************************************************)
(* The postal-code strategy of find_parcel_from_message (ParcelSpec)       *)
(***************************************************************************)

\* C23: when the message holds a standalone 6-digit number that is the
\* code of a parcel, the parcel with that code is returned, wherever the
\* number stands and whatever other 6-digit numbers the message holds.
C23_KnownCodeAnywhere ==
    (stage = "resolved" /\ KnownCodesIn(message) # {}) =>
        parcel \in {ParcelByCode(c) : c \in KnownCodesIn(message)}

(***************************************************************************)
(* The two extraction strategies of find_districts_in_message (TokenSpec)  *)
(***************************************************************************)

\* the region prefixes, whatever the case they are written in
RegionPrefixes == {"MK", "TS"}

\* the number nn of a code, zero-padded to two digits
TwoDigits(num) == IF Len(num) = 1 THEN "0" \o num ELSE num

\* the normalized codes of the tokens of msg: a prefix MK or TS in any
\* letter case at a word boundary, optional whitespace, and a number of 1
\* or 2 digits that ends at a word boundary
TokenCodes(msg) ==
    {Upper(SubSeq(msg, i, i + 1)) \o TwoDigits(SubSeq(msg, p, q)) :
        <<i, p, q>> \in
            {t \in (1..Len(msg)) \X (1..Len(msg)) \X (1..Len(msg)) :
                /\ t[1] + 2 <= t[2] /\ t[2] <= t[3] /\ t[3] <= t[2] + 1
                /\ WordBoundary(msg, t[1] - 1)
                /\ Upper(SubSeq(msg, t[1], t[1] + 1)) \in RegionPrefixes
                /\ \A k \in (t[1] + 2)..(t[2] - 1) : Char(msg, k) \in Whitespace
                /\ \A k \in t[2]..t[3] : IsDigit(Char(msg, k))
                /\ WordBoundary(msg, t[3])}}

\* the codes of every alias of the table that is a substring of the
\* lowercased message
AliasCodesOf(msg) ==
    UNION {Range(DISTRICT_ALIASES[k][2]) :
             k \in {j \in 1..Len(DISTRICT_ALIASES) :
                      Contains(Lower(msg), DISTRICT_ALIASES[j][1])}}

\* C24: the codes returned are, without duplicates, exactly the normalized
\* MK/TS tokens of the message in any letter case, mixed case included,
\* together with the codes of every alias found in the lowercased message.
C24_TokensAndAliases ==
    stage = "extracted" =>
        /\ Range(districts) = TokenCodes(message) \cup AliasCodesOf(message)
        /\ Len(districts) = Cardinality(Range(districts))

(***************************************************************************)
(* Claims about the region lookup (RegionSpec)                             *)
(***************************************************************************)

\* the point lies inside the outer ring of the region: of its polygon, or
\* of any constituent polygon of its multipolygon
InRegion(region, pt) ==
    \/ /\ region.type = "Polygon"
       /\ point_in_polygon(pt, Head(region.coordinates))
    \/ /\ region.type = "MultiPolygon"
       /\ \E poly \in Range(region.coordinates) :
              poly # <<>> /\ point_in_polygon(pt, Head(poly))

\* the point lies inside a ring of the region that is not an outer ring
InHole(region, pt) ==
    /\ region.type = "Polygon"
    /\ \E k \in 2..Len(region.coordinates) : point_in_polygon(pt, region.coordinates[k])

\* C25: a lookup over the loaded regions returns the metadata of the first
\* region in load order whose outer ring (or the outer ring of one of its
\* polygons) contains the point, holes ignored; it returns not-found exactly
\* when no region does, and the route then answers found=false with
\* status 200.
C25_FirstContainingRegion ==
    [][lookup_returns(ChatThread, point') =>
             LET regions == sla_ret[ChatThread].features
                 hits == {i \in 1..Len(regions) : InRegion(regions[i], point')}
             IN  /\ (hits = {}) <=> (district_info' = NoInfo)
                 /\ hits # {} =>
                        district_info' =
                            <<[survey_district |-> regions[Least(hits)].survey_district]>>
                 /\ lookup'.status = 200
                 /\ lookup'.found = (hits # {})
                 /\ lookup'.district = district_info']_vars

\* the point (2, 2) lies in the hole of MK01, the first region, and the
\* lookup reports MK01
C25_Witness ==
    /\ lookup.found
    /\ point = <<2, 2>>
    /\ sla_ret[ChatThread].loaded
    /\ Len(sla_ret[ChatThread].features) = 2
    /\ InHole(sla_ret[ChatThread].features[1], point)
    /\ InRegion(sla_ret[ChatThread].features[2], point)
    /\ district_info = <<[survey_district |-> "MK01"]>>

(***************************************************************************)
(* Claims about the loading of the regions (LoadSpec)                      *)
(***************************************************************************)

\* C26: the file is read into the cache at most once per process; once a
\* load has succeeded, every later call returns the loaded set without
\* reading the file, and no operation changes the loaded regions.
C26_LoadedOnce ==
    /\ [](nLoads <= 1)
    /\ [][\A t \in Threads :
            (IsCached(sla_districts_cache) /\ sla_district_lookup(t)) =>
                /\ sla_ret'[t] = sla_districts_cache
                /\ nLoads' = nLoads]_vars
    /\ [][IsCached(sla_districts_cache) =>
            sla_districts_cache' = sla_districts_cache]_vars

(***************************************************************************)
(* The division of point_in_polygon (PolygonSpec)                          *)
(***************************************************************************)

\* the ring closed by repeating its first vertex
ClosedRing(ring) == IF ring = <<>> THEN ring ELSE Append(ring, ring[1])

\* the loop body for vertex i of the ring divides by zero
DividesByZeroAt(pt, ring, i) ==
    /\ EvaluatesDivision(pt[2], ring[i], ring[PrevIndex(i, Len(ring))])
    /\ ring[PrevIndex(i, Len(ring))][2] - ring[i][2] = 0

\* C27: no edge makes point_in_polygon divide by zero, for the ring or for
\* the ring closed by repeating its first vertex; closing the ring does not
\* change the result, and an empty ring gives false.
C27_NoDivisionByZero ==
    stage = "tested" =>
        /\ \A i \in 1..Len(polygon) : ~DividesByZeroAt(point, polygon, i)
        /\ \A i \in 1..Len(ClosedRing(polygon)) :
               ~DividesByZeroAt(point, ClosedRing(polygon), i)
        /\ point_in_polygon(point, ClosedRing(polygon)) = inside
        /\ polygon = <<>> => ~inside

\* a point inside a triangle with a horizontal edge; the closed ring has a
\* zero-length edge as well
C27_Witness ==
    /\ stage = "tested"
    /\ Len(polygon) = 3
    /\ \E i \in 2..3 : polygon[i - 1][2] = polygon[i][2] /\ polygon[i - 1] # polygon[i]
    /\ inside
    /\ point_in_polygon(point, ClosedRing(polygon))

(***************************************************************************)
(* The confirmation line of the region-mention synthesis (ChatSpec)        *)
(***************************************************************************)

\* the confirmation line, up to the codes it names
ConfirmationPrefix == "Districts highlighted on map: "

\* C28: when the final response text holds the appended line 'Districts
\* highlighted on map: <codes>', the final command is highlight-regions
\* over exactly the codes the line names.
C28_ConfirmationMatchesCommand ==
    (TurnCompleted /\ Contains(result.response, ConfirmationPrefix)) =>
        /\ result.action.type = "highlight_districts"
        /\ Contains(result.response,
                    ConfirmationPrefix \o Join(result.action.district_codes, ", ") \o "**")

(***************************************************************************)
(* Directives with an empty code list (ListSpec)                           *)
(***************************************************************************)

\* the lines of the trimmed reply that are ACTION lines, trimmed
TrimmedDirectives ==
    LET lines == Split(Strip(reply), "\n")
    IN  {Strip(lines[i]) : i \in {j \in 1..Len(lines) : StartsWith(Strip(lines[j]), "ACTION:")}}

\* the reply holds one directive, of the given kind, and no entry of its
\* comma-separated list is left after trimming
SoleEmptyList(kind) ==
    /\ Cardinality(TrimmedDirectives) = 1
    /\ \A d \in TrimmedDirectives :
           /\ StartsWith(d, "ACTION:" \o kind)
           /\ Entries(From(d, Len("ACTION:" \o kind))) = <<>>

\* the command of a directive of the given kind with no codes
EmptyCommand(kind) ==
    IF kind = "POSTAL:"
    THEN [type |-> "highlight_postal_codes", postal_codes |-> <<>>]
    ELSE [type |-> "highlight_districts", district_codes |-> <<>>]

\* C29: a POSTAL or DISTRICT directive whose code list is empty after
\* trimming is parsed to a command with an empty code list; no region
\* synthesis is applied in that turn, whatever the message resolved to, and
\* the result carries the empty-list command unless a trigger keyword
\* replaces it.
C29_EmptyListIsCommand ==
    TurnCompleted =>
        \A kind \in {"POSTAL:", "DISTRICT:"} :
            SoleEmptyList(kind) =>
                /\ parsed = EmptyCommand(kind)
                /\ ~Contains(result.response, ConfirmationPrefix)
                /\ ~IsTrigger(message) => result.action = EmptyCommand(kind)
                /\ IsTrigger(message) => result.action = HighlightAllParcels

\* 'tuas' resolves to region codes and the reply is 'ACTION:DISTRICT: , ':
\* the result carries highlight-regions over no code
C29_Witness ==
    /\ TurnCompleted
    /\ message = "tuas"
    /\ DistrictSet(message) # {}
    /\ reply = "ACTION:DISTRICT: , "
    /\ result.action = [type |-> "highlight_districts", district_codes |-> <<>>]

(***************************************************************************)
(* The order of the cache refreshes (Spec)                                 *)
(***************************************************************************)

\* C30: under any interleaving of get_jtc_buildings calls the stored expiry
\* never moves backwards: a refresh stores an expiry at least as late as
\* the one it replaces, so a snapshot is never replaced by one whose fetch
\* started earlier.
C30_ExpiryMonotonic ==
    [][(jtc_cache.expires # NoTime /\ jtc_cache'.expires # NoTime) =>
           jtc_cache'.expires[1] >= jtc_cache.expires[1]]_vars

====
